---- MODULE Spec2Model ----
(***************************************************************************)
(* The orchestration core of the VLM chat client: ChatInterface (the       *)
(* message log, the two send locks, the connection probe), MessageInput    *)
(* (the submit guard), ModelSelector (model switch), AudioUpload           *)
(* (transcription), SessionManager (the session list) and ApiService's     *)
(* event-stream reader.  One action is one JavaScript task: an event       *)
(* handler up to its first await, or the continuation that runs when an    *)
(* awaited request settles.  React state is read as of the latest render,  *)
(* except where a closure of an async function keeps an older value.       *)
(*                                                                         *)
(* Text is a sequence of symbols (<<>> is the empty string), so that       *)
(* concatenation, trim and emptiness are computed and not assumed.         *)
(***************************************************************************)
EXTENDS Integers, Sequences, FiniteSets, TLC

\* ------------------------------------------------------------------ bounds
\* Lines the backend writes on the event stream of the one turn of StreamSpec.
MaxStreamLines == 3
\* Sends that are accepted in LockSpec.
MaxSends == 2
\* Files the user picks for upload in AssetSpec.
MaxImages == 2
\* Model switches that are started, and reloads of the model list the user
\* asks for, in SwitchSpec.
MaxSwitches == 1
MaxLoads == 1
\* Audio files the user picks for transcription in AudioSpec.
MaxAudio == 2
\* Sessions the user creates in SessionSpec.
MaxSessions == 1
\* Create requests of the SessionManager in ManagerSpec.
MaxCreates == 2
\* Runs of checkConnection in ProbeSpec.
MaxProbes == 2

\* ------------------------------------------------------------- vocabulary
Null == "null"
ModelIds == {"modelA", "modelB"}

\* What the user can have typed into the text area.
Texts == {<< >>, <<" ">>, <<"hi">>}

ErrNoModel == "Please select and load a model before sending messages."
ErrGenerate == "Failed to generate response. Please try again."
ErrConnect == "Failed to connect to backend. Make sure the backend server is running."
ErrLoadModels == "Failed to load available models"
ErrSwitch == "Failed to switch model"
ErrUpload == "Upload failed"
ErrUploadImages == "Failed to upload images. Please try again."
ErrLoadSessions == "Failed to load sessions"
ErrNameRequired == "Session name is required"
ErrModelFirst == "Please select a model first"
ErrCreateSession == "Failed to create session"
ErrDeleteSession == "Failed to delete session"

\* The ids the backend gives to sessions, the selection that means no
\* session (part_001:106), what listSessions can resolve with, and what the
\* user can have typed as the name of a new session.
SessionIds == {"s1", "s2"}
NoSession == ""
SessionLists ==
  { << >>, <<[id |-> "s1", name |-> <<"old">>, model_id |-> "modelA"]>> }
SessionNames == {<< >>, <<" ">>, <<"work">>}

\* An image without uploadedPath, and the path the backend gives a saved file.
NoPath == << >>
PathOf(id) == <<"uploads/", id>>

\* Bytes of an event stream: a newline, the 'data: ' prefix, a JSON object
\* (its type and its content/message field), or bytes that are no JSON.
NL == [k |-> "nl"]
Prefix == [k |-> "data: "]
Junk == [k |-> "junk"]
Json(type, text) == [k |-> "json", type |-> type, text |-> text]

StartLine == <<Prefix, Json("start", << >>)>>
TokenLine(s) == <<Prefix, Json("token", s)>>
DoneLine == <<Prefix, Json("done", << >>)>>
ErrorLine(m) == <<Prefix, Json("error", m)>>

\* A data line whose payload is no JSON, a line that is no data line, and a
\* data line whose JSON has a type the switch has no case for.
BadLine == <<Prefix, Junk>>
OtherLine == <<Junk>>
UnknownLine == <<Prefix, Json("ping", << >>)>>

\* The lines the backend may write (each is followed by a newline).
ServerLines ==
  { StartLine, TokenLine(<<"A ">>), TokenLine(<<"cat.">>), TokenLine(<< >>),
    DoneLine, ErrorLine(<<"OOM">>), BadLine, OtherLine, UnknownLine }

\* How the fetch of /generate/stream can fail before any byte is read.
FetchFailures == { <<"HTTP error! status: 500">>, <<"Stream not supported">>,
                   <<"Failed to fetch">> }
ReadFailure == <<"network error">>

VARIABLES
  messages,                     \* ChatInterface: the message log
  isGenerating,                 \* ChatInterface
  isWaitingForLogConfirmation,  \* ChatInterface
  error,                        \* ChatInterface: the error banner
  isConnected,                  \* ChatInterface
  currentModelId,               \* ChatInterface
  uploadedImages,               \* ChatInterface: the asset list
  selectedImages,               \* ChatInterface: the selected assets (copies of records)
  message,                      \* MessageInput: the text area
  modelSelector,                \* ModelSelector: its state
  turns,                        \* one record per accepted send (its closure and its stream)
  logRequests,                  \* the log-assistant-message requests issued
  uploads,                      \* the upload requests in flight (handleFileSelect's closures)
  objectURLs,                   \* the browser: the object URLs that are live
  switchCall,                   \* handleModelSwitch: where the running call is
  loads,                        \* loadAvailableModels calls in flight outside a switch
  probe,                        \* checkConnection: where the running probe is
  backendModel,                 \* the backend: the model it has loaded
  nextId,                       \* the next fresh id (uuid, image id)
  declined,                     \* the last user action that was declined
  quota,                        \* what is left of the bounds
  isAudioLoading,               \* ChatInterface
  isTranscribing,               \* AudioUpload: a transcription call is in flight
  sessionManager,               \* SessionManager: its state
  currentSessionId,             \* the selected session, held by SessionManager's parent
  sessionCalls,                 \* SessionManager: its requests in flight (with their closures)
  revokes,                      \* the browser: the URLs passed to URL.revokeObjectURL, in order
  deletes                       \* the deleteFile requests issued (path and where each is)

chatVars == <<messages, isGenerating, isWaitingForLogConfirmation, error>>
connVars == <<isConnected, currentModelId, probe>>
assetVars == <<uploadedImages, selectedImages, uploads, objectURLs>>
selectorVars == <<modelSelector, switchCall, loads, backendModel>>
audioVars == <<isAudioLoading, isTranscribing>>
sessionVars == <<sessionManager, currentSessionId, sessionCalls>>
releaseVars == <<revokes, deletes>>
sideVars == <<audioVars, sessionVars, releaseVars>>
vars == <<messages, isGenerating, isWaitingForLogConfirmation, error, isConnected,
          currentModelId, uploadedImages, selectedImages, message, modelSelector,
          turns, logRequests, uploads, objectURLs, switchCall, loads, probe, backendModel,
          nextId, declined, quota, isAudioLoading, isTranscribing, sessionManager,
          currentSessionId, sessionCalls, revokes, deletes>>

\* ------------------------------------------------------------- text helpers
\* String.prototype.trim (MessageInput.tsx:42, part_002:74).
RECURSIVE TrimLeft(_)
TrimLeft(s) == IF s # << >> /\ Head(s) = " " THEN TrimLeft(Tail(s)) ELSE s

RECURSIVE TrimRight(_)
TrimRight(s) ==
  IF s # << >> /\ s[Len(s)] = " " THEN TrimRight(SubSeq(s, 1, Len(s) - 1)) ELSE s

Trim(s) == TrimRight(TrimLeft(s))

\* `Error: ${error}` (part_002:134).
ErrorText(m) == <<"Error: ">> \o m

\* ---------------------------------------------------- the stream callbacks
\* The callbacks handleSendMessage passes to generateResponseStream.  cs is
\* the ChatInterface state they update; c is the closure of the turn (text,
\* assistantMessageId, and the render's isWaitingForLogConfirmation).

\* The fragment put in front of the content instead of behind it.
AppendContentInFront(content, token) == token \o content

\* msg.content + token (part_002:119).
AppendContent(content, token) == content \o token

\* The error text written whatever the content, as the catch of
\* handleSendMessage does (part_002:192-196).
ErrorContentOverwrites(content, err) == ErrorText(err)

\* msg.content || `Error: ${error}` (part_002:134).
ErrorContent(content, err) == IF content # << >> THEN content ELSE ErrorText(err)

\* onToken without its test of the id.
onTokenAnyMessage(cs, c, token) ==
  [cs EXCEPT !.messages =
     [i \in DOMAIN cs.messages |->
        [cs.messages[i] EXCEPT !.content = AppendContent(@, token)]]]

\* onToken (part_002:116-122).
onToken(cs, c, token) ==
  [cs EXCEPT !.messages =
     [i \in DOMAIN cs.messages |->
        IF cs.messages[i].id = c.assistantMessageId
          THEN [cs.messages[i] EXCEPT !.content = AppendContent(@, token)]
          ELSE cs.messages[i]]]

\* onStart (part_002:124-126): logs the metadata only.
onStart(cs, c, metadata) == cs

\* onError without its reset of isGenerating.
onErrorKeepsGenerating(cs, c, err) ==
  [cs EXCEPT
     !.messages =
       [i \in DOMAIN cs.messages |->
          IF cs.messages[i].id = c.assistantMessageId
            THEN [cs.messages[i] EXCEPT !.content = ErrorContent(@, err),
                                        !.isStreaming = FALSE]
            ELSE cs.messages[i]],
     !.error = ErrGenerate,
     !.isWaitingForLogConfirmation = FALSE]

\* onError that leaves the placeholder streaming.
onErrorKeepsStreaming(cs, c, err) ==
  [cs EXCEPT
     !.messages =
       [i \in DOMAIN cs.messages |->
          IF cs.messages[i].id = c.assistantMessageId
            THEN [cs.messages[i] EXCEPT !.content = ErrorContent(@, err)]
            ELSE cs.messages[i]],
     !.error = ErrGenerate,
     !.isGenerating = FALSE,
     !.isWaitingForLogConfirmation = FALSE]

\* onError (part_002:128-143).
onError(cs, c, err) ==
  [cs EXCEPT
     !.messages =
       [i \in DOMAIN cs.messages |->
          IF cs.messages[i].id = c.assistantMessageId
            THEN [cs.messages[i] EXCEPT !.content = ErrorContent(@, err),
                                        !.isStreaming = FALSE]
            ELSE cs.messages[i]],
     !.error = ErrGenerate,
     !.isGenerating = FALSE,
     !.isWaitingForLogConfirmation = FALSE]

\* The request with the placeholder's content in the place of the user's text.
LogRequestOfContent(c, assistantMsg) ==
  [message_id |-> assistantMsg.id, content |-> assistantMsg.content,
   user_input |-> assistantMsg.content, images_used |-> Len(c.images),
   status |-> "pending"]

\* The request onDone issues (part_002:161-166).
LogRequest(c, assistantMsg) ==
  [message_id |-> assistantMsg.id, content |-> assistantMsg.content,
   user_input |-> c.text, images_used |-> Len(c.images), status |-> "pending"]

\* onDone without the branch for a placeholder that is not in the log.
onDoneNotFoundIgnored(cs, c) ==
  LET finalized ==
        [i \in DOMAIN cs.messages |->
           IF cs.messages[i].id = c.assistantMessageId
             THEN [cs.messages[i] EXCEPT !.isStreaming = FALSE]
             ELSE cs.messages[i]]
      found == {i \in DOMAIN finalized : finalized[i].id = c.assistantMessageId}
  IN  IF found # {}
        THEN LET assistantMsg == finalized[CHOOSE i \in found : \A j \in found : i <= j]
             IN  [cs EXCEPT !.messages = finalized,
                            !.isWaitingForLogConfirmation = TRUE,
                            !.logRequests = Append(@, LogRequest(c, assistantMsg))]
        ELSE [cs EXCEPT !.messages = finalized,
                        !.isWaitingForLogConfirmation = TRUE]

\* onDone (part_002:145-185).  The three state updates run in order in one
\* render; the last one looks the placeholder up in the log as updated by
\* everything queued before it.
onDone(cs, c) ==
  LET finalized ==
        [i \in DOMAIN cs.messages |->
           IF cs.messages[i].id = c.assistantMessageId
             THEN [cs.messages[i] EXCEPT !.isStreaming = FALSE]
             ELSE cs.messages[i]]
      found == {i \in DOMAIN finalized : finalized[i].id = c.assistantMessageId}
  IN  IF found # {}
        THEN LET assistantMsg == finalized[CHOOSE i \in found : \A j \in found : i <= j]
             IN  [cs EXCEPT !.messages = finalized,
                            !.isWaitingForLogConfirmation = TRUE,
                            !.logRequests = Append(@, LogRequest(c, assistantMsg))]
        ELSE [cs EXCEPT !.messages = finalized,
                        !.isWaitingForLogConfirmation = FALSE,
                        !.isGenerating = FALSE]

\* ------------------------------------------------------- the stream reader
\* buffer.split('\n') (api.ts:121): always at least one piece.
RECURSIVE Split(_)
Split(s) ==
  IF \A i \in DOMAIN s : s[i] # NL
    THEN <<s>>
    ELSE LET i == CHOOSE j \in DOMAIN s : s[j] = NL /\ \A l \in 1..(j - 1) : s[l] # NL
         IN  <<SubSeq(s, 1, i - 1)>> \o Split(SubSeq(s, i + 1, Len(s)))

\* line.startsWith('data: ') (api.ts:125).
StartsWithData(line) == line # << >> /\ Head(line) = Prefix

\* JSON.parse(line.slice(6)) returns (api.ts:127); otherwise it throws.
Parses(line) == Len(line) = 2 /\ line[2].k = "json"

\* A call of one of the four callbacks, with its argument.
Call(fn, arg) == [fn |-> fn, arg |-> arg]

\* One line of the for loop (api.ts:124-147).  exit says whether and how the
\* function returns from inside the loop, calls which callbacks it called.
Dispatch(line, cs, c) ==
  IF ~StartsWithData(line) \/ ~Parses(line)
    THEN [cs |-> cs, exit |-> "none", calls |-> << >>]
    ELSE LET data == line[2]
         IN  CASE data.type = "start" ->
                    [cs |-> onStart(cs, c, data), exit |-> "none",
                     calls |-> <<Call("onStart", data.text)>>]
               [] data.type = "token" ->
                    [cs |-> onToken(cs, c, data.text), exit |-> "none",
                     calls |-> <<Call("onToken", data.text)>>]
               [] data.type = "done"  ->
                    [cs |-> onDone(cs, c), exit |-> "done",
                     calls |-> <<Call("onDone", << >>)>>]
               [] data.type = "error" ->
                    [cs |-> onError(cs, c, data.text), exit |-> "error",
                     calls |-> <<Call("onError", data.text)>>]
               [] OTHER -> [cs |-> cs, exit |-> "none", calls |-> << >>]

RECURSIVE ProcessLines(_, _, _)
ProcessLines(lines, cs, c) ==
  IF lines = << >>
    THEN [cs |-> cs, exit |-> "none", calls |-> << >>]
    ELSE LET r == Dispatch(Head(lines), cs, c)
         IN  IF r.exit # "none"
               THEN r
               ELSE [ProcessLines(Tail(lines), r.cs, c) EXCEPT !.calls = r.calls \o @]

\* The pass that forgets what the pass before it kept.
ProcessChunkNoBuffer(buffer, chunk, cs, c) ==
  LET lines == Split(chunk)
      r == ProcessLines(SubSeq(lines, 1, Len(lines) - 1), cs, c)
  IN  [cs |-> r.cs, exit |-> r.exit, calls |-> r.calls, buffer |-> lines[Len(lines)]]

\* One pass of the while loop after a read that returned bytes
\* (api.ts:118-147): the complete lines are processed, the rest is kept.
ProcessChunk(buffer, chunk, cs, c) ==
  LET lines == Split(buffer \o chunk)
      r == ProcessLines(SubSeq(lines, 1, Len(lines) - 1), cs, c)
  IN  [cs |-> r.cs, exit |-> r.exit, calls |-> r.calls, buffer |-> lines[Len(lines)]]

\* The test made on the flag as it is when the call returns.
FinallyResetsLive(cs, c) == cs.isWaitingForLogConfirmation

\* The finally block of handleSendMessage (part_002:202-209) tests the
\* isWaitingForLogConfirmation of the render that created the handler.
FinallyResets(cs, c) == c.isWaitingForLogConfirmation

\* The return of the call that leaves the selection as it is.
AfterStreamKeepsSelection(cs, c) ==
  IF FinallyResets(cs, c)
    THEN [cs EXCEPT !.isGenerating = FALSE, !.isWaitingForLogConfirmation = FALSE]
    ELSE cs

\* What runs in handleSendMessage once generateResponseStream has returned
\* (part_002:202-212).
AfterStream(cs, c) ==
  IF FinallyResets(cs, c)
    THEN [cs EXCEPT !.isGenerating = FALSE, !.isWaitingForLogConfirmation = FALSE,
                    !.selectedImages = << >>]
    ELSE [cs EXCEPT !.selectedImages = << >>]

\* ------------------------------------------------------------------- state
\* A fresh client in front of a backend that has a model loaded or has none.
\* ModelSelector's mount effect has called loadAvailableModels.
\* withSessions: the page shows a SessionManager.
ClientInit(q, withSessions) ==
  /\ messages = << >>
  /\ isGenerating = FALSE
  /\ isWaitingForLogConfirmation = FALSE
  /\ error = Null
  /\ isConnected = FALSE
  /\ currentModelId = Null
  /\ uploadedImages = << >>
  /\ selectedImages = << >>
  /\ message = << >>
  /\ modelSelector = [isOpen |-> FALSE, availableModels |-> {}, currentModelId |-> Null,
                      isTaskRunning |-> FALSE, isSwitching |-> FALSE, error |-> Null,
                      switchError |-> Null]
  /\ turns = << >>
  /\ logRequests = << >>
  /\ uploads = << >>
  /\ objectURLs = {}
  /\ switchCall = [stage |-> "idle", modelId |-> Null]
  /\ loads = 1
  /\ probe = "idle"
  /\ backendModel \in {Null, "modelA"}
  /\ nextId = 1
  /\ declined = "none"
  /\ quota = q
  /\ isAudioLoading = FALSE
  /\ isTranscribing = FALSE
  /\ sessionManager = [mounted |-> withSessions, sessions |-> << >>, isLoading |-> FALSE,
                       showCreateModal |-> FALSE, newSessionName |-> << >>,
                       error |-> Null]
  /\ currentSessionId = Null
  /\ sessionCalls = << >>
  /\ revokes = << >>
  /\ deletes = << >>

\* A page without a SessionManager.
InitWith(q) == ClientInit(q, FALSE)

\* The ChatInterface state the stream callbacks work on, and its write-back.
ChatState ==
  [messages |-> messages, isGenerating |-> isGenerating,
   isWaitingForLogConfirmation |-> isWaitingForLogConfirmation,
   error |-> error, selectedImages |-> selectedImages, logRequests |-> logRequests]

Commit(cs) ==
  /\ messages' = cs.messages
  /\ isGenerating' = cs.isGenerating
  /\ isWaitingForLogConfirmation' = cs.isWaitingForLogConfirmation
  /\ error' = cs.error
  /\ selectedImages' = cs.selectedImages
  /\ logRequests' = cs.logRequests

\* ----------------------------------------------------------- SessionManager
\* The component that renders SessionManager holds the selection: its
\* onSessionSelect and onSessionCreate props take the id, and it disables the
\* input while no session is selected (the sentinel, or none yet).
onSessionSelect(sessionId) == currentSessionId' = sessionId

onSessionCreate(sessionId) == currentSessionId' = sessionId

NoSessionSelected ==
  sessionManager.mounted /\ currentSessionId \in {Null, NoSession}

\* A request of SessionManager in flight, with what its handler closed over.
SessionCall(op, sessionId, name, model_id, selected) ==
  [op |-> op, sessionId |-> sessionId, name |-> name, model_id |-> model_id,
   currentSessionId |-> selected]

Without(calls, r) ==
  SubSeq(calls, 1, r - 1) \o SubSeq(calls, r + 1, Len(calls))

\* loadSessions up to its await (part_001:42-45).
loadSessions ==
  /\ sessionManager' = [sessionManager EXCEPT !.isLoading = TRUE]
  /\ sessionCalls' = Append(sessionCalls, SessionCall("list", Null, << >>, Null, Null))

\* The effect on isConnected (part_001:35-40), after the render in which
\* isConnected becomes connected.
LoadOnConnect(connected) ==
  IF sessionManager.mounted /\ ~isConnected /\ connected
    THEN loadSessions
    ELSE UNCHANGED <<sessionManager, sessionCalls>>

\* listSessions settles (part_001:45-53).
ListSettled(r, ok, list) ==
  /\ r \in DOMAIN sessionCalls /\ sessionCalls[r].op = "list"
  /\ sessionManager' =
       IF ok
         THEN [sessionManager EXCEPT !.sessions = list, !.error = Null,
                                     !.isLoading = FALSE]
         ELSE [sessionManager EXCEPT !.error = ErrLoadSessions, !.isLoading = FALSE]
  /\ sessionCalls' = Without(sessionCalls, r)
  /\ UNCHANGED <<chatVars, connVars, assetVars, selectorVars, message, turns,
                 logRequests, nextId, declined, quota, audioVars, releaseVars, currentSessionId>>

\* canCreateSession (part_001:126).
canCreateSession ==
  currentModelId # Null /\ isConnected /\ ~sessionManager.isLoading

\* The New Session button (part_001:132-134).
OpenCreateModal ==
  /\ sessionManager.mounted /\ canCreateSession
  /\ ~sessionManager.showCreateModal
  /\ sessionManager' = [sessionManager EXCEPT !.showCreateModal = TRUE]
  /\ UNCHANGED <<chatVars, connVars, assetVars, selectorVars, message, turns,
                 logRequests, nextId, declined, quota, audioVars, releaseVars, currentSessionId,
                 sessionCalls>>

\* The name input of the modal (part_001:218-222).
TypeSessionName(name) ==
  /\ sessionManager.showCreateModal
  /\ name # sessionManager.newSessionName
  /\ sessionManager' = [sessionManager EXCEPT !.newSessionName = name]
  /\ UNCHANGED <<chatVars, connVars, assetVars, selectorVars, message, turns,
                 logRequests, nextId, declined, quota, audioVars, releaseVars, currentSessionId,
                 sessionCalls>>

\* The Cancel button of the modal (part_001:255-261).
CancelCreate ==
  /\ sessionManager.showCreateModal /\ ~sessionManager.isLoading
  /\ sessionManager' = [sessionManager EXCEPT !.showCreateModal = FALSE,
                                              !.newSessionName = << >>, !.error = Null]
  /\ UNCHANGED <<chatVars, connVars, assetVars, selectorVars, message, turns,
                 logRequests, nextId, declined, quota, audioVars, releaseVars, currentSessionId,
                 sessionCalls>>

\* The handler without its two checks.
handleCreateSessionUnchecked ==
  /\ sessionManager.showCreateModal
  /\ quota.creates > 0
  /\ sessionManager' = [sessionManager EXCEPT !.isLoading = TRUE]
  /\ sessionCalls' = Append(sessionCalls,
       SessionCall("create", Null, Trim(sessionManager.newSessionName),
                   currentModelId, Null))
  /\ quota' = [quota EXCEPT !.creates = @ - 1]
  /\ UNCHANGED <<chatVars, connVars, assetVars, selectorVars, message, turns,
                 logRequests, nextId, declined, audioVars, releaseVars, currentSessionId>>

\* handleCreateSession up to its await (part_001:56-72), by the Enter key in
\* the name input (part_001:224-228) or by the Create button.
handleCreateSession ==
  /\ sessionManager.showCreateModal
  /\ IF Trim(sessionManager.newSessionName) = << >>
       THEN /\ sessionManager' = [sessionManager EXCEPT !.error = ErrNameRequired]
            /\ UNCHANGED <<sessionCalls, quota>>
       ELSE IF currentModelId = Null
         THEN /\ sessionManager' = [sessionManager EXCEPT !.error = ErrModelFirst]
              /\ UNCHANGED <<sessionCalls, quota>>
         ELSE /\ quota.creates > 0
              /\ sessionManager' = [sessionManager EXCEPT !.isLoading = TRUE]
              /\ sessionCalls' = Append(sessionCalls,
                   SessionCall("create", Null, Trim(sessionManager.newSessionName),
                               currentModelId, Null))
              /\ quota' = [quota EXCEPT !.creates = @ - 1]
  /\ UNCHANGED <<chatVars, connVars, assetVars, selectorVars, message, turns,
                 logRequests, nextId, declined, audioVars, releaseVars, currentSessionId>>

\* createSession settles (part_001:68-89); id is the id the backend gave the
\* new session.
CreateSettled(r, ok, id) ==
  /\ r \in DOMAIN sessionCalls /\ sessionCalls[r].op = "create"
  /\ \A i \in DOMAIN sessionManager.sessions : sessionManager.sessions[i].id # id
  /\ IF ok
       THEN /\ sessionManager' =
                 [sessionManager EXCEPT
                    !.sessions = <<[id |-> id, name |-> sessionCalls[r].name,
                                    model_id |-> sessionCalls[r].model_id]>> \o @,
                    !.showCreateModal = FALSE, !.newSessionName = << >>,
                    !.error = Null, !.isLoading = FALSE]
            /\ onSessionCreate(id)
       ELSE /\ sessionManager' = [sessionManager EXCEPT !.error = ErrCreateSession,
                                                        !.isLoading = FALSE]
            /\ UNCHANGED currentSessionId
  /\ sessionCalls' = Without(sessionCalls, r)
  /\ UNCHANGED <<chatVars, connVars, assetVars, selectorVars, message, turns,
                 logRequests, nextId, declined, quota, audioVars, releaseVars>>

\* The sessions on display: the list gives way to a spinner while isLoading
\* (part_001:161-176).
Listed ==
  IF sessionManager.mounted /\ ~sessionManager.isLoading
    THEN {sessionManager.sessions[i].id : i \in DOMAIN sessionManager.sessions}
    ELSE {}

\* A click on a session of the list (part_001:178).
SelectSession(sessionId) ==
  /\ sessionId \in Listed
  /\ sessionId # currentSessionId
  /\ onSessionSelect(sessionId)
  /\ UNCHANGED <<chatVars, connVars, assetVars, selectorVars, message, turns,
                 logRequests, nextId, declined, quota, audioVars, releaseVars, sessionManager,
                 sessionCalls>>

\* handleDeleteSession up to its await (part_001:92-99), confirmed by the
\* user; the call closes over the currentSessionId of the render.
handleDeleteSession(sessionId) ==
  /\ sessionId \in Listed
  /\ sessionManager' = [sessionManager EXCEPT !.isLoading = TRUE]
  /\ sessionCalls' = Append(sessionCalls,
       SessionCall("delete", sessionId, << >>, Null, currentSessionId))
  /\ UNCHANGED <<chatVars, connVars, assetVars, selectorVars, message, turns,
                 logRequests, nextId, declined, quota, audioVars, releaseVars, currentSessionId>>

\* The settled delete that takes the session off the list whatever the
\* backend answered.
DeleteSettledOptimistic(r, ok) ==
  /\ r \in DOMAIN sessionCalls /\ sessionCalls[r].op = "delete"
  /\ sessionManager' =
       [sessionManager EXCEPT
          !.sessions = SelectSeq(@, LAMBDA x : x.id # sessionCalls[r].sessionId),
          !.error = IF ok THEN Null ELSE ErrDeleteSession, !.isLoading = FALSE]
  /\ IF ok /\ sessionCalls[r].currentSessionId = sessionCalls[r].sessionId
       THEN onSessionSelect(NoSession)
       ELSE UNCHANGED currentSessionId
  /\ sessionCalls' = Without(sessionCalls, r)
  /\ UNCHANGED <<chatVars, connVars, assetVars, selectorVars, message, turns,
                 logRequests, nextId, declined, quota, audioVars, releaseVars>>

\* deleteSession settles (part_001:99-115).
DeleteSettled(r, ok) ==
  /\ r \in DOMAIN sessionCalls /\ sessionCalls[r].op = "delete"
  /\ IF ok
       THEN /\ sessionManager' =
                 [sessionManager EXCEPT
                    !.sessions = SelectSeq(@, LAMBDA x : x.id # sessionCalls[r].sessionId),
                    !.error = Null, !.isLoading = FALSE]
            /\ IF sessionCalls[r].currentSessionId = sessionCalls[r].sessionId
                 THEN onSessionSelect(NoSession)
                 ELSE UNCHANGED currentSessionId
       ELSE /\ sessionManager' = [sessionManager EXCEPT !.error = ErrDeleteSession,
                                                        !.isLoading = FALSE]
            /\ UNCHANGED currentSessionId
  /\ sessionCalls' = Without(sessionCalls, r)
  /\ UNCHANGED <<chatVars, connVars, assetVars, selectorVars, message, turns,
                 logRequests, nextId, declined, quota, audioVars, releaseVars>>

\* ------------------------------------------------------------ MessageInput
\* The prop without its test of the connection.
InputDisabledModelOnly == currentModelId = Null

\* The prop without its test of the model.
InputDisabledNoModelTest == ~isConnected \/ NoSessionSelected

\* The disabled prop ChatInterface passes to MessageInput (part_002:342);
\* on a page with sessions, the input is disabled as well while no session
\* is selected.
InputDisabled == ~isConnected \/ currentModelId = Null \/ NoSessionSelected

\* MessageInput's isConnected and currentModelId props: ChatInterface passes
\* neither (part_002:336-344), so they have their default values
\* (MessageInput.tsx:26-27).
PropIsConnected == TRUE
PropCurrentModelId == Null

\* The placeholder of the text area (MessageInput.tsx:95-102).
InputPlaceholder ==
  IF InputDisabled
    THEN IF ~PropIsConnected THEN "Backend disconnected..."
         ELSE IF PropCurrentModelId = Null THEN "Please select a model..."
         ELSE "Please create or select a session..."
    ELSE IF isWaitingForLogConfirmation THEN "Waiting for backend confirmation..."
    ELSE IF isGenerating THEN "AI is thinking..."
    ELSE "Type your message..."

\* The early return without its tests of isGenerating and
\* isWaitingForLogConfirmation.
SubmitBlockedLockIgnored(text, images) ==
  \/ (Trim(text) = << >> /\ Len(images) = 0)
  \/ InputDisabled

\* The early return of handleSubmit (MessageInput.tsx:42).
SubmitBlocked(text, images) ==
  \/ (Trim(text) = << >> /\ Len(images) = 0)
  \/ isGenerating
  \/ InputDisabled
  \/ isWaitingForLogConfirmation

\* canSend, which enables the send button (MessageInput.tsx:61,126).
canSend ==
  /\ (Trim(message) # << >> \/ Len(selectedImages) > 0)
  /\ ~isGenerating
  /\ ~InputDisabled
  /\ ~isWaitingForLogConfirmation

\* The text area's onChange (MessageInput.tsx:94,105): a disabled text area
\* takes no input.
Type(text) ==
  /\ ~(InputDisabled \/ isGenerating \/ isWaitingForLogConfirmation)
  /\ text # message
  /\ message' = text
  /\ UNCHANGED <<chatVars, connVars, assetVars, selectorVars, turns, logRequests,
                 nextId, declined, quota>>
  /\ UNCHANGED sideVars

\* The paths without the filter.
ImagePathsUnfiltered(images) == [i \in DOMAIN images |-> images[i].uploadedPath]

\* img.uploadedPath of each image, without the missing ones (part_002:108).
ImagePaths(images) ==
  LET paths == [i \in DOMAIN images |-> images[i].uploadedPath]
  IN  SelectSeq(paths, LAMBDA path : path # NoPath)

\* The stream of a call that has returned is garbage: its bytes are dropped
\* when the next send is accepted.
Retired(ts) ==
  [t \in DOMAIN ts |->
     IF ts[t].st = "returned"
       THEN [ts[t] EXCEPT !.wire = << >>, !.calls = << >>]
       ELSE ts[t]]

\* The placeholder in front of the user's message.
TurnMessagesPlaceholderFirst(text, id) ==
  << [id |-> id + 1, type |-> "assistant", content |-> << >>, isStreaming |-> TRUE],
     [id |-> id, type |-> "user", content |-> text, isStreaming |-> FALSE] >>

\* userMessage and assistantMessage, as handleSendMessage appends them
\* (part_002:82-103).
TurnMessages(text, id) ==
  << [id |-> id, type |-> "user", content |-> text, isStreaming |-> FALSE],
     [id |-> id + 1, type |-> "assistant", content |-> << >>, isStreaming |-> TRUE] >>

\* handleSendMessage up to its await (part_002:73-113) and the fetch call of
\* generateResponseStream (api.ts:93).
handleSendMessage(text, imagesToSend) ==
  IF Trim(text) = << >> /\ Len(imagesToSend) = 0
    THEN UNCHANGED <<chatVars, turns, nextId, logRequests, quota>>
    ELSE IF currentModelId = Null
      THEN /\ error' = ErrNoModel
           /\ UNCHANGED <<messages, isGenerating, isWaitingForLogConfirmation,
                          turns, nextId, logRequests, quota>>
      ELSE     /\ messages' = messages \o TurnMessages(text, nextId)
               /\ isGenerating' = TRUE
               /\ error' = Null
               /\ nextId' = nextId + 2
               /\ turns' = Append(Retired(turns),
                    [text |-> text, images |-> imagesToSend,
                     assistantMessageId |-> nextId + 1,
                     isWaitingForLogConfirmation |-> isWaitingForLogConfirmation,
                     image_paths |-> ImagePaths(imagesToSend),
                     st |-> "fetch", buffer |-> << >>, inflight |-> << >>,
                     wire |-> << >>, calls |-> << >>, exit |-> "none"])
               /\ quota' = [quota EXCEPT !.sends = @ - 1]
               /\ UNCHANGED <<isWaitingForLogConfirmation, logRequests>>

\* handleSubmit (MessageInput.tsx:40-46).
handleSubmit ==
  IF SubmitBlocked(message, selectedImages)
    THEN /\ declined' = "send"
         /\ UNCHANGED <<chatVars, connVars, assetVars, selectorVars, message, turns,
                        logRequests, nextId, quota, sideVars>>
    ELSE /\ quota.sends > 0
         /\ handleSendMessage(message, selectedImages)
         /\ message' = << >>
         /\ declined' = "none"
         /\ UNCHANGED <<connVars, assetVars, selectorVars, sideVars>>

\* ---------------------------------------------------- generateResponseStream
Reading(t) == t \in DOMAIN turns /\ turns[t].st = "reading"

\* The call goes on reading after a terminal event.
ReturnedKeepsReading(c, how) == [c EXCEPT !.exit = how]

\* The turn's record once generateResponseStream has returned: what was not
\* read is dropped with the reader, the request and imagesToSend with the
\* call.
Returned(c, how) ==
  [c EXCEPT !.st = "returned", !.exit = how, !.buffer = << >>, !.inflight = << >>,
            !.images = << >>, !.image_paths = << >>]

\* fetch resolves with an ok response and a body (api.ts:93-108).
FetchOk(t) ==
  /\ t \in DOMAIN turns /\ turns[t].st = "fetch"
  /\ turns' = [turns EXCEPT ![t].st = "reading"]
  /\ UNCHANGED <<chatVars, connVars, assetVars, selectorVars, message, logRequests,
                 nextId, declined, quota>>
  /\ UNCHANGED sideVars

\* fetch rejects, or the response is not ok or has no body: the catch calls
\* onError (api.ts:101-108,149-152), and handleSendMessage resumes.
FetchFail(t, why) ==
  /\ t \in DOMAIN turns /\ turns[t].st = "fetch"
  /\ Commit(AfterStream(onError(ChatState, turns[t], why), turns[t]))
  /\ turns' = [turns EXCEPT ![t] = Returned(turns[t], "throw")]
  /\ UNCHANGED <<connVars, uploadedImages, uploads, objectURLs, selectorVars, message, nextId,
                 declined, quota>>
  /\ UNCHANGED sideVars

\* The backend writes one more line on the stream of turn t.
ServerWrite(t, line) ==
  /\ Reading(t)
  /\ quota.lines > 0
  /\ turns' = [turns EXCEPT ![t].inflight = @ \o line \o <<NL>>]
  /\ quota' = [quota EXCEPT !.lines = @ - 1]
  /\ UNCHANGED <<chatVars, connVars, assetVars, selectorVars, message, logRequests,
                 nextId, declined>>
  /\ UNCHANGED sideVars

\* reader.read() resolves with the next n bytes (api.ts:114-147); when a
\* terminal event is among them the function returns and handleSendMessage
\* resumes in the same task.
Read(t, n) ==
  /\ Reading(t)
  /\ n \in 1..Len(turns[t].inflight)
  /\ LET c == turns[t]
         chunk == SubSeq(c.inflight, 1, n)
         r == ProcessChunk(c.buffer, chunk, ChatState, c)
         seen == [c EXCEPT !.buffer = r.buffer, !.wire = @ \o chunk,
                           !.calls = @ \o r.calls,
                           !.inflight = SubSeq(@, n + 1, Len(@))]
     IN  IF r.exit = "none"
           THEN /\ Commit(r.cs)
                /\ turns' = [turns EXCEPT ![t] = seen]
           ELSE /\ Commit(AfterStream(r.cs, c))
                /\ turns' = [turns EXCEPT ![t] = Returned(seen, r.exit)]
  /\ UNCHANGED <<connVars, uploadedImages, uploads, objectURLs, selectorVars, message, nextId,
                 declined, quota>>
  /\ UNCHANGED sideVars

\* The stream ends (the backend closes it, or the connection drops cleanly)
\* and reader.read() resolves with done = true (api.ts:116): the loop ends
\* and the function returns without calling anything.
ReadEnd(t) ==
  /\ Reading(t)
  /\ turns[t].inflight = << >>
  /\ Commit(AfterStream(ChatState, turns[t]))
  /\ turns' = [turns EXCEPT ![t] = Returned(turns[t], "eof")]
  /\ UNCHANGED <<connVars, uploadedImages, uploads, objectURLs, selectorVars, message, nextId,
                 declined, quota>>
  /\ UNCHANGED sideVars

\* reader.read() rejects: the catch calls onError (api.ts:149-152).
ReadFail(t) ==
  /\ Reading(t)
  /\ Commit(AfterStream(onError(ChatState, turns[t], ReadFailure), turns[t]))
  /\ turns' = [turns EXCEPT ![t] = Returned(turns[t], "throw")]
  /\ UNCHANGED <<connVars, uploadedImages, uploads, objectURLs, selectorVars, message, nextId,
                 declined, quota>>
  /\ UNCHANGED sideVars

\* The catch without its two resets.
onLogSettledCatchKeepsLock(cs, ok) ==
  IF ok
    THEN [cs EXCEPT !.isWaitingForLogConfirmation = FALSE, !.isGenerating = FALSE]
    ELSE cs

\* The settled log request that resets isGenerating only.
onLogSettledKeepsWaiting(cs, ok) == [cs EXCEPT !.isGenerating = FALSE]

\* The then (ok) and the catch of the log request (part_002:167-176): both
\* release the lock.
onLogSettled(cs, ok) ==
  [cs EXCEPT !.isWaitingForLogConfirmation = FALSE, !.isGenerating = FALSE]

\* The log request settles.
LogSettled(r, ok) ==
  /\ r \in DOMAIN logRequests /\ logRequests[r].status = "pending"
  /\ Commit([onLogSettled(ChatState, ok) EXCEPT
               !.logRequests[r].status = IF ok THEN "ok" ELSE "failed"])
  /\ UNCHANGED <<connVars, uploadedImages, uploads, objectURLs, selectorVars, message,
                 turns, nextId, declined, quota>>
  /\ UNCHANGED sideVars

\* clearChat (part_002:251-254); its button is disabled on an empty log
\* (part_002:294).
clearChat ==
  /\ messages # << >>
  /\ messages' = << >>
  /\ error' = Null
  /\ UNCHANGED <<isGenerating, isWaitingForLogConfirmation, connVars, assetVars,
                 selectorVars, message, turns, logRequests, nextId, declined, quota>>
  /\ UNCHANGED sideVars

\* ---------------------------------------------------------- checkConnection
\* checkConnection (part_002:28-49), one step per awaited request.
ProbeStart ==
  /\ probe = "idle" /\ quota.probes > 0
  /\ probe' = "health"
  /\ quota' = [quota EXCEPT !.probes = @ - 1]
  /\ UNCHANGED <<chatVars, isConnected, currentModelId, assetVars, selectorVars,
                 message, turns, logRequests, nextId, declined>>
  /\ UNCHANGED sideVars

\* The catch that only logs.
ProbeFailedSilently ==
  /\ probe' = "idle"
  /\ UNCHANGED <<chatVars, isConnected, currentModelId>>

\* The catch of checkConnection (part_002:44-48).
ProbeFailed ==
  /\ isConnected' = FALSE
  /\ error' = ErrConnect
  /\ probe' = "idle"
  /\ UNCHANGED <<messages, isGenerating, isWaitingForLogConfirmation, currentModelId>>

\* checkHealth settles (part_002:30-31); SessionManager's effect on
\* isConnected runs with the render that follows.
ProbeHealth(status) ==
  /\ probe = "health"
  /\ IF status = "throw"
       THEN ProbeFailed
       ELSE /\ isConnected' = (status = "healthy")
            /\ probe' = "info"
            /\ UNCHANGED <<chatVars, currentModelId>>
  /\ LoadOnConnect(status = "healthy")
  /\ UNCHANGED <<assetVars, selectorVars, message, turns, logRequests, nextId,
                 declined, quota, audioVars, releaseVars, currentSessionId>>

\* getModelInfo settles (part_002:33-34).
ProbeInfo(ok) ==
  /\ probe = "info"
  /\ IF ok
       THEN /\ probe' = "models"
            /\ UNCHANGED <<chatVars, isConnected, currentModelId>>
       ELSE ProbeFailed
  /\ UNCHANGED <<assetVars, selectorVars, message, turns, logRequests, nextId,
                 declined, quota>>
  /\ UNCHANGED sideVars

\* getAvailableModels settles (part_002:37-43); a failure is only logged.
ProbeModels(ok) ==
  /\ probe = "models"
  /\ currentModelId' = IF ok THEN backendModel ELSE currentModelId
  /\ error' = Null
  /\ probe' = "idle"
  /\ UNCHANGED <<messages, isGenerating, isWaitingForLogConfirmation, isConnected,
                 assetVars, selectorVars, message, turns, logRequests, nextId,
                 declined, quota>>
  /\ UNCHANGED sideVars

\* The backend restarts, or another client unloads the model: the next
\* getAvailableModels answers with current_model_id null (api.ts:28).
BackendModelLost ==
  /\ backendModel # Null
  /\ backendModel' = Null
  /\ UNCHANGED <<chatVars, connVars, assetVars, modelSelector, switchCall, loads,
                 message, turns, logRequests, nextId, declined, quota, sideVars>>

\* -------------------------------------------------------------- the assets
\* handleImageUpload (part_002:215-229): each image replaces the record of
\* the same id, or is appended when there is none.
RECURSIVE handleImageUpload(_, _)
handleImageUpload(prev, newImages) ==
  IF newImages = << >>
    THEN prev
    ELSE LET newImg == Head(newImages)
             existing == {i \in DOMAIN prev : prev[i].id = newImg.id}
             updatedImages ==
               IF existing # {}
                 THEN [prev EXCEPT ![CHOOSE i \in existing : \A j \in existing : i <= j] = newImg]
                 ELSE Append(prev, newImg)
         IN  handleImageUpload(updatedImages, Tail(newImages))

\* handleFileSelect up to its await (ImageUpload.tsx:41-60): n image files.
handleFileSelect(n) ==
  /\ n \in 1..quota.images
  /\ LET newImages ==
           [i \in 1..n |->
              [id |-> nextId + i - 1, url |-> nextId + i - 1, isUploading |-> TRUE,
               uploadedPath |-> NoPath, uploadError |-> Null]]
     IN  /\ uploadedImages' = handleImageUpload(uploadedImages, newImages)
         /\ uploads' = Append(uploads, newImages)
         /\ objectURLs' = objectURLs \cup {nextId + i - 1 : i \in 1..n}
  /\ nextId' = nextId + n
  /\ quota' = [quota EXCEPT !.images = @ - n]
  /\ UNCHANGED <<chatVars, connVars, selectedImages, selectorVars, message, turns,
                 logRequests, declined>>
  /\ UNCHANGED sideVars

\* The settled upload whose failure leaves the records as they are.
UploadSettledFailureIgnored(u, saved) ==
  /\ u \in DOMAIN uploads
  /\ saved \in -1..Len(uploads[u])
  /\ LET newImages == uploads[u]
         updatedImages ==
           [i \in DOMAIN newImages |->
              [newImages[i] EXCEPT
                 !.isUploading = FALSE,
                 !.uploadedPath = IF i <= saved THEN PathOf(newImages[i].id) ELSE NoPath]]
     IN  uploadedImages' =
           IF saved >= 0 THEN handleImageUpload(uploadedImages, updatedImages)
                          ELSE uploadedImages
  /\ uploads' = [i \in 1..(Len(uploads) - 1) |-> IF i < u THEN uploads[i] ELSE uploads[i + 1]]
  /\ UNCHANGED <<chatVars, connVars, selectedImages, objectURLs, selectorVars, message,
                 turns, logRequests, nextId, declined, quota, sideVars>>

\* uploadFiles settles (ImageUpload.tsx:60-75): the backend saved the first
\* `saved` files of the request, or the request failed (saved = -1).
UploadSettled(u, saved) ==
  /\ u \in DOMAIN uploads
  /\ saved \in -1..Len(uploads[u])
  /\ LET newImages == uploads[u]
         updatedImages ==
           [i \in DOMAIN newImages |->
              [newImages[i] EXCEPT
                 !.isUploading = FALSE,
                 !.uploadedPath = IF i <= saved THEN PathOf(newImages[i].id) ELSE NoPath]]
         failedImages ==
           [i \in DOMAIN newImages |->
              [newImages[i] EXCEPT !.isUploading = FALSE, !.uploadError = ErrUpload]]
     IN  uploadedImages' =
           handleImageUpload(uploadedImages,
                             IF saved >= 0 THEN updatedImages ELSE failedImages)
  /\ uploads' = [i \in 1..(Len(uploads) - 1) |-> IF i < u THEN uploads[i] ELSE uploads[i + 1]]
  /\ UNCHANGED <<chatVars, connVars, selectedImages, objectURLs, selectorVars, message,
                 turns, logRequests, nextId, declined, quota>>
  /\ UNCHANGED sideVars

\* The images the user can click: the cards of the side bar
\* (ImageUpload.tsx:133-143) and the previews above the text area
\* (MessageInput.tsx:68-84).
Clickable == {uploadedImages[i] : i \in DOMAIN uploadedImages}
               \cup {selectedImages[i] : i \in DOMAIN selectedImages}

\* toggleImageSelection (part_002:240-249).
toggleImageSelection(image) ==
  /\ image \in Clickable
  /\ selectedImages' =
       IF \E i \in DOMAIN selectedImages : selectedImages[i].id = image.id
         THEN SelectSeq(selectedImages, LAMBDA selected : selected.id # image.id)
         ELSE Append(selectedImages, image)
  /\ UNCHANGED <<chatVars, connVars, uploadedImages, uploads, objectURLs, selectorVars,
                 message, turns, logRequests, nextId, declined, quota>>
  /\ UNCHANGED sideVars

\* The removal without the release of the preview.
handleRemoveImageKeepsPreview(imageToRemove) ==
  /\ \E i \in DOMAIN uploadedImages : uploadedImages[i] = imageToRemove
  /\ uploadedImages' = SelectSeq(uploadedImages, LAMBDA img : img.id # imageToRemove.id)
  /\ selectedImages' = SelectSeq(selectedImages, LAMBDA img : img.id # imageToRemove.id)
  /\ UNCHANGED <<chatVars, connVars, uploads, objectURLs, selectorVars, message, turns,
                 logRequests, nextId, declined, quota, sideVars>>

\* The removal that leaves the selection as it is.
handleRemoveImageKeepsSelected(imageToRemove) ==
  /\ \E i \in DOMAIN uploadedImages : uploadedImages[i] = imageToRemove
  /\ uploadedImages' = SelectSeq(uploadedImages, LAMBDA img : img.id # imageToRemove.id)
  /\ objectURLs' = objectURLs \ {imageToRemove.url}
  /\ revokes' = Append(revokes, imageToRemove.url)
  /\ UNCHANGED <<chatVars, connVars, selectedImages, uploads, selectorVars, message, turns,
                 logRequests, nextId, declined, quota, audioVars, sessionVars, deletes>>

\* handleRemoveImage (part_002:231-238).
handleRemoveImage(imageToRemove) ==
  /\ \E i \in DOMAIN uploadedImages : uploadedImages[i] = imageToRemove
  /\ uploadedImages' = SelectSeq(uploadedImages, LAMBDA img : img.id # imageToRemove.id)
  /\ selectedImages' = SelectSeq(selectedImages, LAMBDA img : img.id # imageToRemove.id)
  /\ objectURLs' = objectURLs \ {imageToRemove.url}
  /\ revokes' = Append(revokes, imageToRemove.url)
  /\ UNCHANGED <<chatVars, connVars, uploads, selectorVars, message, turns, logRequests,
                 nextId, declined, quota, audioVars, sessionVars, deletes>>

\* The clearing that leaves the selection alone.
clearImagesKeepsSelection ==
  /\ uploadedImages # << >>
  /\ objectURLs' = objectURLs \ {uploadedImages[i].url : i \in DOMAIN uploadedImages}
  /\ revokes' = revokes \o [i \in DOMAIN uploadedImages |-> uploadedImages[i].url]
  /\ uploadedImages' = << >>
  /\ UNCHANGED <<chatVars, connVars, selectedImages, uploads, selectorVars, message,
                 turns, logRequests, nextId, declined, quota, audioVars, sessionVars,
                 deletes>>

\* clearImages (part_002:256-262); its button is disabled on an empty list
\* (part_002:302).
clearImages ==
  /\ uploadedImages # << >>
  /\ objectURLs' = objectURLs \ {uploadedImages[i].url : i \in DOMAIN uploadedImages}
  /\ revokes' = revokes \o [i \in DOMAIN uploadedImages |-> uploadedImages[i].url]
  /\ uploadedImages' = << >>
  /\ selectedImages' = << >>
  /\ UNCHANGED <<chatVars, connVars, uploads, selectorVars, message, turns, logRequests,
                 nextId, declined, quota, audioVars, sessionVars, deletes>>

\* ----------------------------------------------------- SimpleChatInterface
\* The page without streaming keeps its own asset handlers; its image records
\* carry the File they were made from.
FileNames == {"a.png", "b.png"}

\* handleImageUpload up to its await (SimpleChatInterface.tsx:108-118), from
\* handleFileSelect (SimpleChatInterface.tsx:147-157): files are the names of
\* the image files picked.
SimpleHandleImageUpload(files) ==
  /\ Len(files) \in 1..quota.images
  /\ LET newImages ==
           [i \in DOMAIN files |->
              [id |-> nextId + i - 1, file |-> files[i], url |-> nextId + i - 1,
               isUploading |-> TRUE, uploadedPath |-> NoPath, uploadError |-> Null]]
     IN  /\ uploadedImages' = uploadedImages \o newImages
         /\ uploads' = Append(uploads, newImages)
         /\ objectURLs' = objectURLs \cup {nextId + i - 1 : i \in DOMAIN files}
  /\ nextId' = nextId + Len(files)
  /\ quota' = [quota EXCEPT !.images = @ - Len(files)]
  /\ UNCHANGED <<chatVars, connVars, selectedImages, selectorVars, message, turns,
                 logRequests, declined, sideVars>>

\* uploadFiles settles (SimpleChatInterface.tsx:118-144): the backend saved
\* the first `saved` files of the request, or the request failed (saved = -1).
\* A record of the list takes the path of the first saved file with its name.
SimpleUploadSettled(u, saved) ==
  /\ u \in DOMAIN uploads
  /\ saved \in -1..Len(uploads[u])
  /\ LET newImages == uploads[u]
         files == [i \in 1..saved |-> [original_name |-> newImages[i].file,
                                       path |-> PathOf(newImages[i].id)]]
         found(img) == {i \in DOMAIN files : files[i].original_name = img.file}
         uploadedFile(img) == files[CHOOSE i \in found(img) : \A j \in found(img) : i <= j]
     IN  IF saved >= 0
           THEN /\ uploadedImages' =
                     [k \in DOMAIN uploadedImages |->
                        LET img == uploadedImages[k]
                        IN  IF found(img) # {}
                              THEN [img EXCEPT !.uploadedPath = uploadedFile(img).path,
                                               !.isUploading = FALSE]
                              ELSE img]
                /\ UNCHANGED error
           ELSE /\ uploadedImages' =
                     [k \in DOMAIN uploadedImages |->
                        LET img == uploadedImages[k]
                        IN  IF \E i \in DOMAIN newImages : newImages[i].id = img.id
                              THEN [img EXCEPT !.isUploading = FALSE,
                                               !.uploadError = ErrUpload]
                              ELSE img]
                /\ error' = ErrUploadImages
  /\ uploads' = [i \in 1..(Len(uploads) - 1) |-> IF i < u THEN uploads[i] ELSE uploads[i + 1]]
  /\ UNCHANGED <<messages, isGenerating, isWaitingForLogConfirmation, connVars,
                 selectedImages, objectURLs, selectorVars, message, turns, logRequests,
                 nextId, declined, quota, sideVars>>

\* handleRemoveImage up to its await (SimpleChatInterface.tsx:186-201): the
\* record is looked up in the list of the render.
SimpleHandleRemoveImage(imageId) ==
  /\ \E i \in DOMAIN uploadedImages : uploadedImages[i].id = imageId
  /\ LET found == {i \in DOMAIN uploadedImages : uploadedImages[i].id = imageId}
         imageToRemove == uploadedImages[CHOOSE i \in found : \A j \in found : i <= j]
     IN  /\ objectURLs' = objectURLs \ {imageToRemove.url}
         /\ revokes' = Append(revokes, imageToRemove.url)
         /\ deletes' = IF imageToRemove.uploadedPath # NoPath
                         THEN Append(deletes, [path |-> imageToRemove.uploadedPath,
                                               status |-> "pending"])
                         ELSE deletes
  /\ uploadedImages' = SelectSeq(uploadedImages, LAMBDA img : img.id # imageId)
  /\ selectedImages' = SelectSeq(selectedImages, LAMBDA img : img.id # imageId)
  /\ UNCHANGED <<chatVars, connVars, uploads, selectorVars, message, turns, logRequests,
                 nextId, declined, quota, audioVars, sessionVars>>

\* deleteFile settles (SimpleChatInterface.tsx:194-198, api.ts:161-163): a
\* rejection is caught and logged to the console.
DeleteFileSettled(d, ok) ==
  /\ d \in DOMAIN deletes /\ deletes[d].status = "pending"
  /\ deletes' = [deletes EXCEPT ![d].status = IF ok THEN "deleted" ELSE "failed"]
  /\ UNCHANGED <<chatVars, connVars, assetVars, selectorVars, message, turns,
                 logRequests, nextId, declined, quota, audioVars, sessionVars, revokes>>

\* The Clear Images button (SimpleChatInterface.tsx:232-241).
SimpleClearImages ==
  /\ objectURLs' = objectURLs \ {uploadedImages[i].url : i \in DOMAIN uploadedImages}
  /\ revokes' = revokes \o [i \in DOMAIN uploadedImages |-> uploadedImages[i].url]
  /\ uploadedImages' = << >>
  /\ selectedImages' = << >>
  /\ UNCHANGED <<chatVars, connVars, uploads, selectorVars, message, turns, logRequests,
                 nextId, declined, quota, audioVars, sessionVars, deletes>>

\* What generateResponse can resolve with (its response field), and what it
\* can reject with: an answer of the backend with a message, an error of the
\* transport with a message, a value without either.
GenerateResponses == { <<"A cat.">> }
GenerateErrors ==
  { [response_message |-> <<"Model not loaded">>, message |-> <<"status code 500">>],
    [response_message |-> << >>, message |-> <<"Network Error">>],
    [response_message |-> << >>, message |-> << >>] }

\* err.response?.data?.message || err.message || 'Failed to generate response'
\* (SimpleChatInterface.tsx:95).
GenerateErrorText(err) ==
  IF err.response_message # << >> THEN err.response_message
  ELSE IF err.message # << >> THEN err.message
  ELSE <<"Failed to generate response">>

\* The text area's onChange (SimpleChatInterface.tsx:374-377).
SimpleType(text) ==
  /\ ~(~isConnected \/ isGenerating)
  /\ text # message
  /\ message' = text
  /\ UNCHANGED <<chatVars, connVars, assetVars, selectorVars, turns, logRequests,
                 nextId, declined, quota, sideVars>>

\* The send that tests neither isGenerating nor isConnected.
SimpleSendBlockedTextOnly == Trim(message) = << >> /\ Len(selectedImages) = 0

\* The early return of handleSendMessage (SimpleChatInterface.tsx:58).
SimpleSendBlocked ==
  \/ (Trim(message) = << >> /\ Len(selectedImages) = 0)
  \/ isGenerating
  \/ ~isConnected

\* handleSendMessage up to its await (SimpleChatInterface.tsx:56-82).
SimpleHandleSendMessage ==
  IF SimpleSendBlocked
    THEN /\ declined' = "send"
         /\ UNCHANGED <<chatVars, connVars, assetVars, selectorVars, message, turns,
                        logRequests, nextId, quota, sideVars>>
    ELSE /\ quota.sends > 0
         /\ messages' = Append(messages, [id |-> nextId, type |-> "user",
                                          content |-> message])
         /\ isGenerating' = TRUE
         /\ error' = Null
         /\ nextId' = nextId + 1
         /\ turns' = Append(turns, [text |-> message,
                                    image_paths |-> ImagePaths(selectedImages),
                                    st |-> "generate", exit |-> "none"])
         /\ quota' = [quota EXCEPT !.sends = @ - 1]
         /\ declined' = "none"
         /\ UNCHANGED <<isWaitingForLogConfirmation, connVars, assetVars, selectorVars,
                        message, logRequests, sideVars>>

\* generateResponse settles (SimpleChatInterface.tsx:82-105):
\* the answer or the error text becomes an assistant message, the finally
\* block resets isGenerating, and the text area and the selection are cleared.
GenerateSettled(t, ok, response, err) ==
  /\ t \in DOMAIN turns /\ turns[t].st = "generate"
  /\ IF ok
       THEN /\ messages' = Append(messages, [id |-> nextId, type |-> "assistant",
                                             content |-> response])
            /\ UNCHANGED error
       ELSE /\ messages' = Append(messages, [id |-> nextId, type |-> "assistant",
                                             content |-> ErrorText(GenerateErrorText(err))])
            /\ error' = ErrGenerate
  /\ isGenerating' = FALSE
  /\ message' = << >>
  /\ selectedImages' = << >>
  /\ nextId' = nextId + 1
  /\ turns' = [turns EXCEPT ![t].st = "returned",
                            ![t].exit = IF ok THEN "ok" ELSE "throw"]
  /\ UNCHANGED <<isWaitingForLogConfirmation, connVars, uploadedImages, uploads,
                 objectURLs, selectorVars, logRequests, declined, quota, sideVars>>

\* The Clear Chat button (SimpleChatInterface.tsx:227-232).
SimpleClearChat ==
  /\ messages' = << >>
  /\ UNCHANGED <<isGenerating, isWaitingForLogConfirmation, error, connVars, assetVars,
                 selectorVars, message, turns, logRequests, nextId, declined, quota,
                 sideVars>>

\* getModelInfo settles in the probe of this page
\* (SimpleChatInterface.tsx:28-35), which makes no third request.
SimpleProbeInfo(ok) ==
  /\ probe = "info"
  /\ IF ok
       THEN /\ error' = Null
            /\ probe' = "idle"
            /\ UNCHANGED <<messages, isGenerating, isWaitingForLogConfirmation,
                           isConnected, currentModelId>>
       ELSE ProbeFailed
  /\ UNCHANGED <<assetVars, selectorVars, message, turns, logRequests, nextId,
                 declined, quota, sideVars>>

\* -------------------------------------------------------------- AudioUpload
\* What uploadAndTranscribe can resolve with; it can also reject.
Transcriptions ==
  { [status |-> "success", transcription_text |-> <<"hello">>],
    [status |-> "success", transcription_text |-> << >>],
    [status |-> "error", transcription_text |-> << >>] }

\* The disabled prop MessageInput passes to AudioUpload (MessageInput.tsx:120).
AudioDisabled == InputDisabled \/ isGenerating \/ isWaitingForLogConfirmation

\* handleAudioLoadingChange (part_002:264-266).
handleAudioLoadingChange(isLoading) == isAudioLoading' = isLoading

\* The new content of the text area: the transcription after what is there,
\* with a space in between when that is not blank (MessageInput.tsx:50-53).
Transcribed(prev, transcriptionText) ==
  prev \o (IF Trim(prev) # << >> THEN <<" ">> ELSE << >>) \o transcriptionText

\* handleTranscriptionComplete (MessageInput.tsx:48-59).
handleTranscriptionComplete(transcriptionText) ==
  message' = Transcribed(message, transcriptionText)

\* AudioUpload's handleFileSelect up to its await (AudioUpload.tsx:21-51),
\* for a pick with a valid audio file in it; the button and the file input
\* are disabled while a transcription runs (AudioUpload.tsx:89,110).
AudioFileSelect ==
  /\ ~(AudioDisabled \/ isTranscribing)
  /\ quota.audio > 0
  /\ isTranscribing' = TRUE
  /\ handleAudioLoadingChange(TRUE)
  /\ quota' = [quota EXCEPT !.audio = @ - 1]
  /\ UNCHANGED <<chatVars, connVars, assetVars, selectorVars, message, turns,
                 logRequests, nextId, declined, sessionVars, releaseVars>>

\* uploadAndTranscribe resolves (AudioUpload.tsx:51-83): a success with a
\* text goes to handleTranscriptionComplete, anything else is thrown, caught
\* and alerted; the finally block resets both flags.
TranscriptionResolved(response) ==
  /\ isTranscribing
  /\ IF response.status = "success" /\ response.transcription_text # << >>
       THEN handleTranscriptionComplete(response.transcription_text)
       ELSE UNCHANGED message
  /\ isTranscribing' = FALSE
  /\ handleAudioLoadingChange(FALSE)
  /\ UNCHANGED <<chatVars, connVars, assetVars, selectorVars, turns, logRequests,
                 nextId, declined, quota, sessionVars, releaseVars>>

\* The rejection whose finally block does not call onLoadingChange.
TranscriptionRejectedKeepsLoading ==
  /\ isTranscribing
  /\ isTranscribing' = FALSE
  /\ UNCHANGED <<chatVars, connVars, assetVars, selectorVars, message, turns,
                 logRequests, nextId, declined, quota, isAudioLoading, sessionVars,
                 releaseVars>>

\* uploadAndTranscribe rejects (AudioUpload.tsx:68-83).
TranscriptionRejected ==
  /\ isTranscribing
  /\ isTranscribing' = FALSE
  /\ handleAudioLoadingChange(FALSE)
  /\ UNCHANGED <<chatVars, connVars, assetVars, selectorVars, message, turns,
                 logRequests, nextId, declined, quota, sessionVars, releaseVars>>

\* ------------------------------------------------------------ ModelSelector
isSwitching == modelSelector.isSwitching

\* The prop left out.
SelectorNeverDisabled == FALSE

\* The disabled prop ChatInterface passes to ModelSelector (part_002:315).
SelectorDisabled == isGenerating \/ isAudioLoading

\* canSwitchModel (ModelSelector.tsx:80).
canSwitchModel ==
  ~SelectorDisabled /\ ~modelSelector.isTaskRunning /\ ~modelSelector.isSwitching

\* The body of loadAvailableModels once getAvailableModels has settled
\* (ModelSelector.tsx:42-53).
LoadResult(sel, ok, taskRunning) ==
  IF ok
    THEN [sel EXCEPT !.availableModels = ModelIds, !.currentModelId = backendModel',
                     !.isTaskRunning = taskRunning, !.error = Null]
    ELSE [sel EXCEPT !.error = ErrLoadModels]

\* A loadAvailableModels call of the mount effect, of Retry or of the
\* refresh button settles (ModelSelector.tsx:38-53).
LoadSettled(ok, taskRunning) ==
  /\ loads > 0
  /\ loads' = loads - 1
  /\ backendModel' = backendModel
  /\ modelSelector' = LoadResult(modelSelector, ok, taskRunning)
  /\ UNCHANGED <<chatVars, connVars, assetVars, switchCall, message, turns,
                 logRequests, nextId, declined, quota>>
  /\ UNCHANGED sideVars

\* Retry (ModelSelector.tsx:89-94, shown instead of the selector while error
\* is set) or the refresh button of the open menu (ModelSelector.tsx:181-187).
Reload ==
  /\ quota.loads > 0
  /\ \/ modelSelector.error # Null
     \/ (modelSelector.isOpen /\ ~modelSelector.isSwitching)
  /\ loads' = loads + 1
  /\ quota' = [quota EXCEPT !.loads = @ - 1]
  /\ UNCHANGED <<chatVars, connVars, assetVars, modelSelector, switchCall, backendModel,
                 message, turns, logRequests, nextId, declined>>
  /\ UNCHANGED sideVars

\* The selector button (ModelSelector.tsx:102-104) and the backdrop of the
\* open menu (ModelSelector.tsx:169-172).
ToggleOpen ==
  /\ modelSelector.error = Null
  /\ canSwitchModel \/ modelSelector.isOpen
  /\ modelSelector' = [modelSelector EXCEPT !.isOpen = ~@]
  /\ UNCHANGED <<chatVars, connVars, assetVars, switchCall, loads, backendModel, message,
                 turns, logRequests, nextId, declined, quota>>
  /\ UNCHANGED sideVars

\* The disabled attribute of a model's button in the menu
\* (ModelSelector.tsx:204,210).
ItemDisabled == ~canSwitchModel \/ modelSelector.isSwitching

\* The early return of handleModelSwitch (ModelSelector.tsx:56).
SwitchBlocked(modelId) ==
  \/ modelId = modelSelector.currentModelId
  \/ modelSelector.isSwitching
  \/ modelSelector.isTaskRunning

\* The handler without its setIsSwitching(true), and with no test of the
\* button's disabled attribute.
handleModelSwitchNoFlag(modelId) ==
  /\ modelSelector.error = Null /\ modelSelector.isOpen
  /\ modelId \in modelSelector.availableModels
  /\ IF SwitchBlocked(modelId)
       THEN /\ declined' = "switch"
            /\ UNCHANGED <<modelSelector, switchCall, quota>>
       ELSE /\ quota.switches > 0
            /\ modelSelector' = [modelSelector EXCEPT !.switchError = Null]
            /\ switchCall' = [stage |-> "switch", modelId |-> modelId]
            /\ quota' = [quota EXCEPT !.switches = @ - 1]
            /\ declined' = "none"
  /\ UNCHANGED <<chatVars, connVars, assetVars, loads, backendModel, message, turns,
                 logRequests, nextId>>
  /\ UNCHANGED sideVars

\* A click on a model of the open menu (ModelSelector.tsx:202-210) and
\* handleModelSwitch up to its await (ModelSelector.tsx:55-64).
handleModelSwitch(modelId) ==
  /\ modelSelector.error = Null /\ modelSelector.isOpen
  /\ modelId \in modelSelector.availableModels
  /\ IF ItemDisabled \/ SwitchBlocked(modelId)
       THEN /\ declined' = "switch"
            /\ UNCHANGED <<modelSelector, switchCall, quota>>
       ELSE /\ quota.switches > 0
            /\ modelSelector' = [modelSelector EXCEPT !.isSwitching = TRUE,
                                                      !.switchError = Null]
            /\ switchCall' = [stage |-> "switch", modelId |-> modelId]
            /\ quota' = [quota EXCEPT !.switches = @ - 1]
            /\ declined' = "none"
  /\ UNCHANGED <<chatVars, connVars, assetVars, loads, backendModel, message, turns,
                 logRequests, nextId>>
  /\ UNCHANGED sideVars

\* The catch takes the id the call asked for, and the flag stays.
SwitchFailedTakesModel(sel) ==
  [sel EXCEPT !.switchError = ErrSwitch, !.currentModelId = switchCall.modelId]

\* The catch and the finally block of handleModelSwitch
\* (ModelSelector.tsx:71-77).
SwitchFailed(sel) == [sel EXCEPT !.switchError = ErrSwitch, !.isSwitching = FALSE]

\* switchModel settles (ModelSelector.tsx:64-78).  On success the backend has
\* the model loaded, handleModelChange (part_002:62-64) takes the id, and the
\* call goes on to reload the list; on failure it ends.
SwitchSettled(ok) ==
  /\ switchCall.stage = "switch"
  /\ IF ok
       THEN /\ backendModel' = switchCall.modelId
            /\ modelSelector' = [modelSelector EXCEPT !.currentModelId = switchCall.modelId,
                                                      !.isOpen = FALSE]
            /\ currentModelId' = switchCall.modelId
            /\ switchCall' = [switchCall EXCEPT !.stage = "reload"]
       ELSE /\ modelSelector' = SwitchFailed(modelSelector)
            /\ switchCall' = [stage |-> "idle", modelId |-> Null]
            /\ UNCHANGED <<backendModel, currentModelId>>
  /\ UNCHANGED <<chatVars, isConnected, probe, assetVars, loads, message, turns,
                 logRequests, nextId, declined, quota>>
  /\ UNCHANGED sideVars

\* The loadAvailableModels awaited by handleModelSwitch settles, and the
\* finally block runs (ModelSelector.tsx:70,75-77).
ReloadSettled(ok, taskRunning) ==
  /\ switchCall.stage = "reload"
  /\ backendModel' = backendModel
  /\ modelSelector' = [LoadResult(modelSelector, ok, taskRunning) EXCEPT !.isSwitching = FALSE]
  /\ switchCall' = [stage |-> "idle", modelId |-> Null]
  /\ UNCHANGED <<chatVars, connVars, assetVars, loads, message, turns, logRequests,
                 nextId, declined, quota>>
  /\ UNCHANGED sideVars

\* ------------------------------------------------------- the specifications
\* The turn protocol: typing, sending, the event stream, the log request,
\* clearing the log, the connection probe.
CoreNext ==
  \/ \E text \in Texts : Type(text)
  \/ handleSubmit
  \/ \E t \in DOMAIN turns : FetchOk(t)
  \/ \E t \in DOMAIN turns, why \in FetchFailures : FetchFail(t, why)
  \/ \E t \in DOMAIN turns, line \in ServerLines : ServerWrite(t, line)
  \/ \E t \in DOMAIN turns : \E n \in 1..Len(turns[t].inflight) : Read(t, n)
  \/ \E t \in DOMAIN turns : ReadEnd(t)
  \/ \E t \in DOMAIN turns : ReadFail(t)
  \/ \E r \in DOMAIN logRequests, ok \in BOOLEAN : LogSettled(r, ok)
  \/ clearChat
  \/ ProbeStart
  \/ \E status \in {"healthy", "unhealthy", "throw"} : ProbeHealth(status)
  \/ \E ok \in BOOLEAN : ProbeInfo(ok)
  \/ \E ok \in BOOLEAN : ProbeModels(ok)

\* The turn protocol without the bytes of the stream: the call of an accepted
\* send ends by a failure or by the end of the stream.
PageNext ==
  \/ \E text \in Texts : Type(text)
  \/ handleSubmit
  \/ \E t \in DOMAIN turns : FetchOk(t)
  \/ \E t \in DOMAIN turns, why \in FetchFailures : FetchFail(t, why)
  \/ \E t \in DOMAIN turns : ReadEnd(t)
  \/ \E t \in DOMAIN turns : ReadFail(t)
  \/ clearChat
  \/ ProbeStart
  \/ \E status \in {"healthy", "unhealthy", "throw"} : ProbeHealth(status)
  \/ \E ok \in BOOLEAN : ProbeInfo(ok)
  \/ \E ok \in BOOLEAN : ProbeModels(ok)

\* The connection probe alone.
ProbeNext ==
  \/ ProbeStart
  \/ \E status \in {"healthy", "unhealthy", "throw"} : ProbeHealth(status)
  \/ \E ok \in BOOLEAN : ProbeInfo(ok)
  \/ \E ok \in BOOLEAN : ProbeModels(ok)

AssetNext ==
  \/ \E n \in 1..quota.images : handleFileSelect(n)
  \/ \E u \in DOMAIN uploads : \E saved \in -1..Len(uploads[u]) : UploadSettled(u, saved)
  \/ \E image \in Clickable : toggleImageSelection(image)
  \/ \E image \in Clickable : handleRemoveImage(image)
  \/ clearImages

SimpleNext ==
  \/ \E n \in 1..quota.images : \E files \in [1..n -> FileNames] :
       SimpleHandleImageUpload(files)
  \/ \E u \in DOMAIN uploads : \E saved \in -1..Len(uploads[u]) :
       SimpleUploadSettled(u, saved)
  \/ \E image \in Clickable : toggleImageSelection(image)
  \/ \E image \in Clickable : SimpleHandleRemoveImage(image.id)
  \/ \E d \in DOMAIN deletes : \E ok \in BOOLEAN : DeleteFileSettled(d, ok)
  \/ SimpleClearImages

SessionNext ==
  \/ \E r \in DOMAIN sessionCalls, list \in SessionLists : ListSettled(r, TRUE, list)
  \/ \E r \in DOMAIN sessionCalls : ListSettled(r, FALSE, << >>)
  \/ OpenCreateModal
  \/ \E name \in SessionNames : TypeSessionName(name)
  \/ CancelCreate
  \/ handleCreateSession
  \/ \E r \in DOMAIN sessionCalls, ok \in BOOLEAN, id \in SessionIds : CreateSettled(r, ok, id)
  \/ \E sessionId \in SessionIds : SelectSession(sessionId)
  \/ \E sessionId \in SessionIds : handleDeleteSession(sessionId)
  \/ \E r \in DOMAIN sessionCalls, ok \in BOOLEAN : DeleteSettled(r, ok)

AudioNext ==
  \/ AudioFileSelect
  \/ \E response \in Transcriptions : TranscriptionResolved(response)
  \/ TranscriptionRejected

SelectorNext ==
  \/ \E ok \in BOOLEAN, taskRunning \in BOOLEAN : LoadSettled(ok, taskRunning)
  \/ Reload
  \/ ToggleOpen
  \/ \E modelId \in ModelIds : handleModelSwitch(modelId)
  \/ \E ok \in BOOLEAN : SwitchSettled(ok)
  \/ \E ok \in BOOLEAN, taskRunning \in BOOLEAN : ReloadSettled(ok, taskRunning)

\* Each specification follows a fresh client through one probe of the
\* backend; what it bounds beyond that is in its initial quota.

\* One turn, with every stream the backend can write in MaxStreamLines lines.
StreamInit ==
  InitWith([lines |-> MaxStreamLines, sends |-> 1, probes |-> 1,
            images |-> 0, switches |-> 0, loads |-> 0,
            audio |-> 0, creates |-> 0])

StreamSpec == StreamInit /\ [][CoreNext]_vars

\* The log request of a turn settles: apiService's requests end with a
\* response, an error or their timeout (api.ts:14-17).
LogSettles == \E r \in DOMAIN logRequests, ok \in BOOLEAN : LogSettled(r, ok)

FairStreamSpec == StreamSpec /\ WF_vars(LogSettles)

\* Turns one after the other, the first with a one-line stream, and one image
\* to pick and to select.
LockInit ==
  InitWith([lines |-> 1, sends |-> MaxSends, probes |-> 1,
            images |-> 1, switches |-> 0, loads |-> 0,
            audio |-> 0, creates |-> 0])

LockNext ==
  \/ CoreNext
  \/ \E n \in 1..quota.images : handleFileSelect(n)
  \/ \E image \in Clickable : toggleImageSelection(image)

LockSpec == LockInit /\ [][LockNext]_vars

\* One turn on whose stream the backend writes nothing, and the asset list.
AssetInit ==
  InitWith([lines |-> 0, sends |-> 1, probes |-> 1,
            images |-> MaxImages, switches |-> 0, loads |-> 0,
            audio |-> 0, creates |-> 0])

AssetSpec == AssetInit /\ [][PageNext \/ AssetNext]_vars

\* The asset list of the page without streaming.
SimpleInit ==
  InitWith([lines |-> 0, sends |-> 0, probes |-> 0,
            images |-> MaxImages, switches |-> 0, loads |-> 0,
            audio |-> 0, creates |-> 0])

SimpleSpec == SimpleInit /\ [][SimpleNext]_vars

\* The page without streaming: its probe, its sends, and one image to pick
\* and to select.
SimpleChatNext ==
  \/ \E text \in Texts : SimpleType(text)
  \/ SimpleHandleSendMessage
  \/ \E t \in DOMAIN turns, response \in GenerateResponses, err \in GenerateErrors :
       \/ GenerateSettled(t, TRUE, response, err)
       \/ GenerateSettled(t, FALSE, response, err)
  \/ SimpleClearChat
  \/ ProbeStart
  \/ \E status \in {"healthy", "unhealthy", "throw"} : ProbeHealth(status)
  \/ \E ok \in BOOLEAN : SimpleProbeInfo(ok)
  \/ SimpleHandleImageUpload(<<"a.png">>)
  \/ \E u \in DOMAIN uploads : \E saved \in -1..Len(uploads[u]) :
       SimpleUploadSettled(u, saved)
  \/ \E image \in Clickable : toggleImageSelection(image)

SimpleChatInit ==
  InitWith([lines |-> 0, sends |-> MaxSends, probes |-> 1,
            images |-> 1, switches |-> 0, loads |-> 0,
            audio |-> 0, creates |-> 0])

SimpleChatSpec == SimpleChatInit /\ [][SimpleChatNext]_vars

\* One turn with a one-line stream, and the audio button.
AudioInit ==
  InitWith([lines |-> 1, sends |-> 1, probes |-> 1,
            images |-> 0, switches |-> 0, loads |-> 0,
            audio |-> MaxAudio, creates |-> 0])

AudioSpec == AudioInit /\ [][CoreNext \/ AudioNext]_vars

\* The transcription request settles: it ends with a response, an error or
\* its timeout of two minutes (api.ts:188-193).
TranscriptionSettles ==
  \/ \E response \in Transcriptions : TranscriptionResolved(response)
  \/ TranscriptionRejected

FairAudioSpec == AudioSpec /\ WF_vars(TranscriptionSettles)

\* One turn on whose stream the backend writes nothing, on a page with a
\* SessionManager.
SessionInit ==
  ClientInit([lines |-> 0, sends |-> 1, probes |-> 1,
              images |-> 0, switches |-> 0, loads |-> 0,
              audio |-> 0, creates |-> MaxSessions], TRUE)

SessionSpec == SessionInit /\ [][PageNext \/ SessionNext]_vars

\* The SessionManager and the probes of its page, without a turn.
ManagerInit ==
  ClientInit([lines |-> 0, sends |-> 0, probes |-> 1,
              images |-> 0, switches |-> 0, loads |-> 0,
              audio |-> 0, creates |-> MaxCreates], TRUE)

ManagerSpec == ManagerInit /\ [][ProbeNext \/ SessionNext]_vars

\* The probes of a page with a SessionManager, on a backend that can lose its
\* model.
ProbeInit ==
  ClientInit([lines |-> 0, sends |-> 0, probes |-> MaxProbes,
              images |-> 0, switches |-> 0, loads |-> 0,
              audio |-> 0, creates |-> 1], TRUE)

ProbeSpec == ProbeInit /\ [][ProbeNext \/ SessionNext \/ BackendModelLost]_vars

\* One turn with a one-line stream, and the model selector.
SwitchInit ==
  InitWith([lines |-> 1, sends |-> 1, probes |-> 1,
            images |-> 0, switches |-> MaxSwitches, loads |-> MaxLoads,
            audio |-> 0, creates |-> 0])

SwitchSpec == SwitchInit /\ [][CoreNext \/ SelectorNext]_vars

\* ------------------------------------------------------------ what a turn saw
\* The placeholder of turn t, as far as it is still in the log.
Placeholders(t) ==
  {i \in DOMAIN messages : messages[i].id = turns[t].assistantMessageId}

\* The complete lines among the bytes a reader has received.
CompleteLines(wire) ==
  LET lines == Split(wire) IN SubSeq(lines, 1, Len(lines) - 1)

LinesSeen(t) == CompleteLines(turns[t].wire)

IsEvent(line, type) == StartsWithData(line) /\ Parses(line) /\ line[2].type = type

IsTerminal(line) == IsEvent(line, "done") \/ IsEvent(line, "error")

\* The events among lines, up to and with the first terminal one.
RECURSIVE Events(_)
Events(lines) ==
  IF lines = << >>
    THEN << >>
    ELSE LET line == Head(lines)
         IN  IF IsTerminal(line)
               THEN <<line[2]>>
               ELSE IF StartsWithData(line) /\ Parses(line)
                 THEN <<line[2]>> \o Events(Tail(lines))
                 ELSE Events(Tail(lines))

\* The token fragments of a sequence of events, one after the other.
RECURSIVE Fragments(_)
Fragments(events) ==
  IF events = << >>
    THEN << >>
    ELSE IF Head(events).type = "token"
      THEN Head(events).text \o Fragments(Tail(events))
      ELSE Fragments(Tail(events))

TokensIn(wire) == Fragments(Events(CompleteLines(wire)))

TokensOf(t) == TokensIn(turns[t].wire)

\* Turn t is in flight: its streaming call has not returned, or its log
\* request has not settled.
InFlight(t) ==
  \/ turns[t].st # "returned"
  \/ \E r \in DOMAIN logRequests :
       /\ logRequests[r].message_id = turns[t].assistantMessageId
       /\ logRequests[r].status = "pending"

Locked == isGenerating \/ isWaitingForLogConfirmation

Idle == ~isGenerating /\ ~isWaitingForLogConfirmation

\* ------------------------------------------------------------------ claims
\* C1 as stated: once the terminal event of a turn is handled, the
\* placeholder's content is the concatenation of the token fragments that
\* arrived before it, in arrival order.  It fails when the terminal event is
\* an error and no fragment has made the content non-empty: the content is
\* then the error text.
C1_ContentIsConcatenation ==
  \A t \in DOMAIN turns :
    turns[t].exit \in {"done", "error"} =>
      \A i \in Placeholders(t) : messages[i].content = TokensOf(t)

\* C1, amended: once the terminal event of a turn is handled, the
\* placeholder's content is the concatenation of the token fragments that
\* arrived before it, in arrival order, none dropped, duplicated or reordered;
\* except that after an error event that finds this concatenation empty the
\* content is "Error: " followed by the event's message.
C1_ContentIsConcatenationOrErrorText ==
  \A t \in DOMAIN turns :
    turns[t].exit \in {"done", "error"} =>
      LET events == Events(LinesSeen(t))
          last == events[Len(events)]
      IN  \A i \in Placeholders(t) :
            messages[i].content =
              IF last.type = "error" /\ TokensOf(t) = << >>
                THEN <<"Error: ">> \o last.text
                ELSE TokensOf(t)

\* Two fragments arrived and the done event after them.
C1_Witness ==
  \E t \in DOMAIN turns :
    /\ turns[t].exit = "done"
    /\ Events(LinesSeen(t)) = <<TokenLine(<<"A ">>)[2], TokenLine(<<"cat.">>)[2], DoneLine[2]>>
    /\ \E i \in Placeholders(t) : messages[i].content = <<"A ", "cat.">>

\* C2: at most one turn is in flight at any time, and a send attempted while
\* isGenerating or isWaitingForLogConfirmation holds is rejected: it changes
\* neither the log nor the two flags, and starts no turn.
C2_SendWhileLockedRejected ==
  /\ [](Cardinality({t \in DOMAIN turns : InFlight(t)}) <= 1)
  /\ [][(Locked /\ handleSubmit) =>
          UNCHANGED <<messages, isGenerating, isWaitingForLogConfirmation, turns,
                      logRequests>>]_vars

\* A send with an image selected was declined while a turn was in flight.
C2_Witness ==
  /\ declined = "send"
  /\ isGenerating
  /\ selectedImages # << >>
  /\ \E t \in DOMAIN turns : InFlight(t)

\* C3: once isWaitingForLogConfirmation is set the controller eventually is
\* Idle again, both flags false, and it is so as soon as the log request
\* settles, whether it succeeds or fails.
C3_ConfirmationEndsIdle ==
  /\ isWaitingForLogConfirmation ~> Idle
  /\ [][\A r \in DOMAIN logRequests, ok \in BOOLEAN : LogSettled(r, ok) => Idle']_vars

\* A log request has failed and the controller is Idle.
C3_Witness ==
  /\ Idle
  /\ \E r \in DOMAIN logRequests : logRequests[r].status = "failed"

\* C4 as stated: when the stream of a turn ends without a terminal event,
\* by its end or by a failed read, the turn is handled as an error: the
\* placeholder stops streaming and the controller gets back to Idle.  After
\* the end of the stream (exit "eof") it never does.
C4_StreamEndIsError ==
  (\E t \in DOMAIN turns : turns[t].exit \in {"eof", "throw"})
    ~> /\ Idle
       /\ \A t \in DOMAIN turns :
            turns[t].exit \in {"eof", "throw"} =>
              \A i \in Placeholders(t) : ~messages[i].isStreaming

\* C5 as stated: isGenerating and isSwitching are never both true.
C5_NeverGeneratingAndSwitching == ~(isGenerating /\ isSwitching)

\* The streaming call of some turn has not returned.
Streaming == \E t \in DOMAIN turns : turns[t].st # "returned"

\* The requests among requests that were issued for turn t.
RequestsFor(t, requests) ==
  {r \in DOMAIN requests : requests[r].message_id = turns[t].assistantMessageId}

RequestsOf(t) == RequestsFor(t, logRequests)

Pending == \E r \in DOMAIN logRequests : logRequests[r].status = "pending"

\* Turn t handles a terminal event of the given type in this step.
Handles(t, type) ==
  /\ t \in DOMAIN turns
  /\ turns[t].exit = "none"
  /\ turns'[t].exit = type

\* C6: a click on a model while a turn is streaming is rejected: no switch
\* request is issued, isSwitching is unchanged (false when no switch was in
\* flight), and currentModelId is unchanged in the selector, in the chat and
\* on the backend.
C6_SwitchWhileStreamingRejected ==
  [][(Streaming /\ \E modelId \in ModelIds : handleModelSwitch(modelId)) =>
       /\ switchCall' = switchCall
       /\ modelSelector'.isSwitching = modelSelector.isSwitching
       /\ modelSelector'.currentModelId = modelSelector.currentModelId
       /\ currentModelId' = currentModelId
       /\ backendModel' = backendModel]_vars

\* With the menu open since before the send, a click on a model was declined
\* while the turn was streaming.
C6_Witness ==
  /\ Streaming
  /\ declined = "switch"
  /\ modelSelector.isOpen
  /\ ~isSwitching
  /\ switchCall.stage = "idle"

\* C7: while a log request is pending the lock is held and every send is
\* rejected, whatever the text and the images; the return of the streaming
\* call does not release it.
C7_LockedUntilSettled ==
  Pending =>
    /\ isWaitingForLogConfirmation
    /\ \A text \in Texts : SubmitBlocked(text, selectedImages)

\* The streaming call has returned, the log request is pending, and a send
\* with an image selected since was declined.
C7_Witness ==
  /\ Pending
  /\ \A t \in DOMAIN turns : turns[t].st = "returned"
  /\ declined = "send"
  /\ selectedImages # << >>

\* C8: after start and then error(m), no token in between, the placeholder
\* has content "Error: " followed by m and is not streaming, and both flags
\* are false; and isWaitingForLogConfirmation is not true at any point of a
\* turn that has not handled done.
C8_StartThenError ==
  \A t \in DOMAIN turns :
    /\ (t = Len(turns) /\ turns[t].exit # "done") => ~isWaitingForLogConfirmation
    /\ LET events == Events(LinesSeen(t))
       IN  (/\ turns[t].exit = "error"
            /\ Len(events) = 2
            /\ events[1].type = "start"
            /\ events[2].type = "error")
             => /\ Idle
                /\ \A i \in Placeholders(t) :
                     /\ messages[i].content = <<"Error: ">> \o events[2].text
                     /\ ~messages[i].isStreaming

\* The stream was start and error("OOM"), and the placeholder reads
\* "Error: OOM".
C8_Witness ==
  \E t \in DOMAIN turns :
    /\ turns[t].exit = "error"
    /\ LinesSeen(t) = <<StartLine, ErrorLine(<<"OOM">>)>>
    /\ \E i \in Placeholders(t) :
         messages[i] = [id |-> turns[t].assistantMessageId, type |-> "assistant",
                        content |-> <<"Error: ", "OOM">>, isStreaming |-> FALSE]
    /\ Idle

\* C9: the step that handles an error event leaves a content that the tokens
\* have made non-empty as it is, the concatenation of the tokens received; it
\* writes the error text only into an empty content; either way the
\* placeholder stops streaming and the global error is set.
C9_ErrorKeepsContent ==
  [][\A t \in DOMAIN turns :
       Handles(t, "error") =>
         LET events == Events(CompleteLines(turns'[t].wire))
             tokens == Fragments(events)
         IN  /\ error' = ErrGenerate
             /\ \A i \in Placeholders(t) :
                  /\ messages'[i].id = messages[i].id
                  /\ ~messages'[i].isStreaming
                  /\ messages'[i].content =
                       IF tokens # << >>
                         THEN tokens
                         ELSE <<"Error: ">> \o events[Len(events)].text]_vars

\* An error event came after a token, and the placeholder reads the token.
C9_Witness ==
  \E t \in DOMAIN turns :
    /\ turns[t].exit = "error"
    /\ TokensOf(t) = <<"A ">>
    /\ error = ErrGenerate
    /\ \E i \in Placeholders(t) :
         messages[i].content = <<"A ">> /\ ~messages[i].isStreaming

\* C10 as stated: once done is handled the placeholder is not streaming and
\* exactly one log request has been issued for the turn, with the
\* placeholder's final content and the user's text.  It fails when the log
\* was cleared during the turn: no request is issued then.
C10_OneRequestOnDone ==
  \A t \in DOMAIN turns :
    turns[t].exit = "done" =>
      /\ \A i \in Placeholders(t) : ~messages[i].isStreaming
      /\ Cardinality(RequestsOf(t)) = 1
      /\ \A r \in RequestsOf(t) :
           /\ logRequests[r].content = TokensOf(t)
           /\ logRequests[r].user_input = turns[t].text

\* C10, amended: the step that handles done marks the placeholder
\* streaming=false and issues one log request for the turn, with the
\* placeholder's final content (all tokens applied) and the user's text,
\* provided the placeholder is still in the log; when the log was cleared
\* during the turn it issues none.  No other step issues a request for the
\* turn.
C10_OneRequestOnDoneUnlessCleared ==
  [][\A t \in DOMAIN turns :
       IF ~Handles(t, "done")
         THEN RequestsFor(t, logRequests') = RequestsOf(t)
         ELSE IF Placeholders(t) = {}
           THEN logRequests' = logRequests
           ELSE LET final == TokensIn(turns'[t].wire)
                    request == logRequests'[Len(logRequests')]
                IN  /\ \A i \in Placeholders(t) :
                         /\ messages'[i].id = messages[i].id
                         /\ ~messages'[i].isStreaming
                         /\ messages'[i].content = final
                    /\ RequestsOf(t) = {}
                    /\ Len(logRequests') = Len(logRequests) + 1
                    /\ RequestsFor(t, logRequests') = {Len(logRequests')}
                    /\ request.content = final
                    /\ request.user_input = turns[t].text
                    /\ request.status = "pending"]_vars

\* Done came after two tokens, and the request carries both and the text.
C10_Witness ==
  \E t \in DOMAIN turns :
    /\ turns[t].exit = "done"
    /\ turns[t].text = <<"hi">>
    /\ \E i \in Placeholders(t) : ~messages[i].isStreaming
    /\ \E r \in RequestsOf(t) :
         /\ logRequests[r].content = <<"A ", "cat.">>
         /\ logRequests[r].user_input = <<"hi">>

\* A send is accepted in this step.
Accepts == Len(turns') = Len(turns) + 1

\* old is the beginning of new.
IsPrefix(old, new) == Len(old) <= Len(new) /\ SubSeq(new, 1, Len(old)) = old

\* The log is cleared in this step.
Clears == messages' = << >>

\* C11: an accepted send appends the user's message and then the placeholder
\* (empty, streaming) to the log, and no event of the new turn has been
\* processed then; and a user message stays where it is, with its content,
\* in every step that does not clear the log.
C11_UserMessageKept ==
  /\ [][Accepts =>
          LET turn == turns'[Len(turns')]
              n == Len(messages)
          IN  /\ Len(messages') = n + 2
              /\ SubSeq(messages', 1, n) = messages
              /\ messages'[n + 1] = [id |-> turn.assistantMessageId - 1, type |-> "user",
                                     content |-> message, isStreaming |-> FALSE]
              /\ messages'[n + 2] = [id |-> turn.assistantMessageId, type |-> "assistant",
                                     content |-> << >>, isStreaming |-> TRUE]
              /\ turn.st = "fetch" /\ turn.wire = << >> /\ turn.exit = "none"]_vars
  /\ [][\A i \in DOMAIN messages :
          messages[i].type = "user" =>
            \/ Clears
            \/ i \in DOMAIN messages' /\ messages'[i] = messages[i]]_vars

\* The log request of a turn has failed and the user's message is still the
\* first of the log.
C11_Witness ==
  /\ \E r \in DOMAIN logRequests : logRequests[r].status = "failed"
  /\ Len(messages) = 2
  /\ messages[1] = [id |-> 1, type |-> "user", content |-> <<"hi">>, isStreaming |-> FALSE]

\* C12: a step of the reader that handles no terminal event changes only the
\* message with the turn's assistantMessageId, and only by appending to its
\* content; the other messages, the order and the length of the log stay.
C12_TokenTouchesPlaceholderOnly ==
  [][\A t \in DOMAIN turns :
       (turns'[t].wire # turns[t].wire /\ turns'[t].exit = "none") =>
         /\ DOMAIN messages' = DOMAIN messages
         /\ \A i \in DOMAIN messages :
              IF messages[i].id = turns[t].assistantMessageId
                THEN /\ IsPrefix(messages[i].content, messages'[i].content)
                     /\ messages'[i] = [messages[i] EXCEPT !.content = messages'[i].content]
                ELSE messages'[i] = messages[i]]_vars

\* Two tokens have been appended and the user's message is as it was sent.
C12_Witness ==
  \E t \in DOMAIN turns :
    /\ turns[t].exit = "none"
    /\ Len(messages) = 2
    /\ messages[1].content = turns[t].text
    /\ messages[2] = [id |-> turns[t].assistantMessageId, type |-> "assistant",
                      content |-> <<"A ", "cat.">>, isStreaming |-> TRUE]

\* C13: an assistant message that is not streaming any more is the same in
\* every later state, until the log is cleared.
C13_FinalizedNeverChanges ==
  [][\A i \in DOMAIN messages :
       (messages[i].type = "assistant" /\ ~messages[i].isStreaming) =>
         \/ Clears
         \/ i \in DOMAIN messages' /\ messages'[i] = messages[i]]_vars

\* The done event and a token after it have arrived, and the finalized
\* message has the content it had at done.
C13_Witness ==
  \E t \in DOMAIN turns :
    /\ LinesSeen(t) = <<TokenLine(<<"A ">>), DoneLine, TokenLine(<<"cat.">>)>>
    /\ \E i \in Placeholders(t) :
         messages[i].content = <<"A ">> /\ ~messages[i].isStreaming

\* A data line the reader has no case for: its payload is no JSON, or its
\* type is none of start, token, done and error.
IsProtocolError(line) ==
  /\ StartsWithData(line)
  /\ ~(Parses(line) /\ line[2].type \in {"start", "token", "done", "error"})

\* The reader of turn t went through a malformed or unexpected data line:
\* such a line is among the complete lines it received, with no terminal
\* event before it.
SawProtocolError(t) ==
  \E i \in DOMAIN LinesSeen(t) :
    /\ IsProtocolError(LinesSeen(t)[i])
    /\ \A j \in 1..(i - 1) : ~IsTerminal(LinesSeen(t)[j])

\* C14 as stated: a data line that is no valid JSON, or an event of an
\* unexpected type, terminates the turn as an error event does: the call
\* has returned, the placeholder is finalized and the controller is Idle.
\* The reader skips such a line and goes on reading.
C14_ProtocolErrorTerminates ==
  \A t \in DOMAIN turns :
    SawProtocolError(t) =>
      /\ turns[t].st = "returned"
      /\ \A i \in Placeholders(t) : ~messages[i].isStreaming
      /\ Idle

\* One of the four conditions of a send does not hold.
SendUnmet ==
  ~isConnected \/ currentModelId = Null \/ isGenerating \/ isWaitingForLogConfirmation

\* C15: the send button is enabled only when the client is connected, a
\* model is selected, no generation is in flight and no acknowledgment is
\* awaited; and in a state where one of the four fails a send attempt
\* changes neither the log nor the turns nor the input buffer, and no step
\* at all makes the log longer or starts a turn.
C15_SendNeedsAllFour ==
  /\ [](canSend => ~SendUnmet)
  /\ [][SendUnmet =>
          /\ Len(messages') <= Len(messages)
          /\ Len(turns') = Len(turns)
          /\ handleSubmit => UNCHANGED <<messages, turns, logRequests, message>>]_vars

\* Disconnected with a model known and an image selected, a send was
\* declined and the log is still empty.
C15_Witness ==
  /\ ~isConnected
  /\ currentModelId # Null
  /\ selectedImages # << >>
  /\ declined = "send"
  /\ messages = << >>

\* C16 as stated: while an audio transcription is in progress no send is
\* accepted, and the text of a transcription is never appended to an input
\* buffer that a send has cleared since the transcription began.  The send
\* tests nothing about the transcription.
C16_NoSendWhileTranscribing ==
  [][isAudioLoading => ~Accepts]_vars

SwitchFails == switchCall.stage = "switch" /\ switchCall'.stage = "idle"

\* C18: the step in which a switch fails leaves isSwitching false and
\* switchError set, and changes currentModelId neither in the selector nor
\* in the chat (the model-change callback is not invoked); the backend's
\* model, the menu and the list of models stay as they are too.
C18_FailedSwitchKeepsModel ==
  [][SwitchFails =>
       /\ ~modelSelector'.isSwitching
       /\ modelSelector'.switchError = ErrSwitch
       /\ modelSelector'.currentModelId = modelSelector.currentModelId
       /\ currentModelId' = currentModelId
       /\ modelSelector'.isOpen = modelSelector.isOpen
       /\ modelSelector'.availableModels = modelSelector.availableModels
       /\ UNCHANGED <<backendModel, messages, isGenerating>>]_vars

\* A switch to another model has failed: the error is shown in the open
\* menu, and selector and chat still have the model of before.
C18_Witness ==
  /\ modelSelector.switchError = ErrSwitch
  /\ ~modelSelector.isSwitching
  /\ switchCall.stage = "idle"
  /\ quota.switches < MaxSwitches
  /\ modelSelector.currentModelId = "modelA"
  /\ currentModelId = "modelA"
  /\ backendModel = "modelA"

\* A click on a model starts a switch call in this step.
SwitchStarts == switchCall'.stage = "switch" /\ switchCall' # switchCall

ImageRecords ==
  {uploadedImages[i] : i \in DOMAIN uploadedImages}
    \cup {selectedImages[i] : i \in DOMAIN selectedImages}
    \cup UNION {{turns[t].images[i] : i \in DOMAIN turns[t].images} : t \in DOMAIN turns}

\* The upload request of the asset with this id has not settled.
StillUploading(id) ==
  \E u \in DOMAIN uploads : \E j \in DOMAIN uploads[u] : uploads[u][j].id = id

\* C20: no record of an asset that is uploading has a remote path, and the
\* image_paths of the request of an accepted send are, in the order of the
\* selection, the remote paths of the selected assets that have one: each
\* entry is the path the backend gave to an asset of the selection whose
\* record is not uploading and has no error, and whose upload request has
\* settled.
C20_RequestPathsAreUploaded ==
  /\ [](\A image \in ImageRecords :
          (image.isUploading \/ image.uploadError # Null) => image.uploadedPath = NoPath)
  /\ [][Accepts =>
          LET request == turns'[Len(turns')]
          IN  /\ request.image_paths =
                   SelectSeq([i \in DOMAIN selectedImages |-> selectedImages[i].uploadedPath],
                             LAMBDA path : path # NoPath)
              /\ \A k \in DOMAIN request.image_paths :
                   \E i \in DOMAIN selectedImages :
                     /\ request.image_paths[k] = PathOf(selectedImages[i].id)
                     /\ ~selectedImages[i].isUploading
                     /\ selectedImages[i].uploadError = Null
                     /\ ~StillUploading(selectedImages[i].id)]_vars

\* A request in flight carries the path of the one image it was sent with,
\* while the upload of no image is running.
C20_Witness ==
  \E t \in DOMAIN turns :
    /\ turns[t].st # "returned"
    /\ Len(turns[t].images) = 1
    /\ turns[t].image_paths = <<PathOf(turns[t].images[1].id)>>
    /\ uploads = << >>

\* A send was accepted with an image that was selected while it was
\* uploading: its request carries no path.
C20_UploadingLeftOut ==
  \E t \in DOMAIN turns :
    /\ turns[t].st # "returned"
    /\ Len(turns[t].images) = 1
    /\ turns[t].images[1].isUploading
    /\ turns[t].image_paths = << >>

\* The record the asset list holds now for the asset with this id.
CurrentRecords(id) ==
  {uploadedImages[i] : i \in {j \in DOMAIN uploadedImages : uploadedImages[j].id = id}}

\* The selected asset has, in the asset list, a record with a remote path and
\* no error.
Attachable(selected) ==
  \E image \in CurrentRecords(selected.id) :
    image.uploadedPath # NoPath /\ image.uploadError = Null

\* C21: the image_paths of the request of an accepted send are the remote
\* paths of the assets selected at the send whose record in the asset list has
\* a remote path and no error, an asset that was selected while it was
\* uploading and whose upload has succeeded since included.
C21_AttachmentsOfCurrentRecords ==
  [][Accepts =>
       turns'[Len(turns')].image_paths =
         [i \in DOMAIN SelectSeq(selectedImages, Attachable) |->
            PathOf(SelectSeq(selectedImages, Attachable)[i].id)]]_vars

\* The records of before whose asset is not in after.
Gone(before, after) ==
  {before[i] : i \in {j \in DOMAIN before :
                        \A k \in DOMAIN after : after[k].id # before[j].id}}

\* How often x occurs in seq.
Occurrences(x, seq) == Cardinality({i \in DOMAIN seq : seq[i] = x})

IssuesDelete(path) ==
  /\ Len(deletes') = Len(deletes) + 1
  /\ deletes'[Len(deletes')].path = path

\* C23: the removal of an asset takes it off the asset list and out of the
\* selection and releases its preview, and when the asset has a remote path
\* the step issues a remote delete for that path.
C23_RemoveIssuesRemoteDelete ==
  [][\A image \in Clickable :
       handleRemoveImage(image) =>
         /\ \A i \in DOMAIN uploadedImages' : uploadedImages'[i].id # image.id
         /\ \A i \in DOMAIN selectedImages' : selectedImages'[i].id # image.id
         /\ image.url \notin objectURLs'
         /\ (image.uploadedPath # NoPath => IssuesDelete(image.uploadedPath))]_vars

\* The page without streaming: the removal takes the asset off the asset list
\* and out of the selection, releases its preview and, when its record has a
\* remote path, issues a remote delete for it; no step in which a remote
\* delete settles, failed or not, touches the asset list, the selection or the
\* error banner.
SimpleRemoveDeletesRemotely ==
  /\ [][\A image \in Clickable :
          SimpleHandleRemoveImage(image.id) =>
            /\ \A i \in DOMAIN uploadedImages' : uploadedImages'[i].id # image.id
            /\ \A i \in DOMAIN selectedImages' : selectedImages'[i].id # image.id
            /\ \E i \in DOMAIN uploadedImages :
                 /\ uploadedImages[i].id = image.id
                 /\ uploadedImages[i].url \notin objectURLs'
                 /\ (uploadedImages[i].uploadedPath # NoPath
                       => IssuesDelete(uploadedImages[i].uploadedPath))]_vars
  /\ [][(\E d \in DOMAIN deletes : deletes'[d].status # deletes[d].status)
          => UNCHANGED <<uploadedImages, selectedImages, error>>]_vars

\* The page without streaming: a remote delete has failed, and the asset it
\* was issued for is off the list.
SimpleFailedDelete ==
  /\ \E d \in DOMAIN deletes : deletes[d].status = "failed"
  /\ uploadedImages = << >>

\* The ids of the assets of the upload request u.
AssetsOf(u) == {uploads[u][j].id : j \in DOMAIN uploads[u]}

\* C24: when an upload request fails, every asset of the request is on the
\* asset list afterwards with isUploading false, the error 'Upload failed' and
\* no remote path, the record of every other asset is what it was, and the
\* selection is untouched; no request ever carries the path of an asset whose
\* record has an error; and the remove button of such an asset works.
C24_FailedUploadStaysWithError ==
  /\ [][\A u \in DOMAIN uploads :
          UploadSettled(u, -1) =>
            /\ \A j \in DOMAIN uploads[u] :
                 \E i \in DOMAIN uploadedImages' :
                   /\ uploadedImages'[i].id = uploads[u][j].id
                   /\ ~uploadedImages'[i].isUploading
                   /\ uploadedImages'[i].uploadError = ErrUpload
                   /\ uploadedImages'[i].uploadedPath = NoPath
            /\ \A i \in DOMAIN uploadedImages :
                 uploadedImages[i].id \notin AssetsOf(u)
                   => uploadedImages'[i] = uploadedImages[i]
            /\ selectedImages' = selectedImages]_vars
  /\ [](\A image \in ImageRecords :
          image.uploadError # Null =>
            /\ image.uploadedPath = NoPath
            /\ \A t \in DOMAIN turns : \A k \in DOMAIN turns[t].image_paths :
                 turns[t].image_paths[k] # PathOf(image.id))
  /\ [](\A i \in DOMAIN uploadedImages :
          uploadedImages[i].uploadError # Null
            => ENABLED handleRemoveImage(uploadedImages[i]))

\* The upload of an asset has failed, the asset alone was selected and a send
\* was accepted: the asset is on the list with its error, and the request
\* went out without a path.
C24_FailedAlone ==
  \E t \in DOMAIN turns : \E a \in DOMAIN uploadedImages :
    /\ uploadedImages[a].uploadError = ErrUpload
    /\ ~uploadedImages[a].isUploading
    /\ turns[t].images = <<uploadedImages[a]>>
    /\ turns[t].image_paths = << >>

\* Two assets, the upload of one has failed, both were selected and a send
\* was accepted: the failed asset is on the list with its error, and the
\* request carries the path of the uploaded asset only.
C24_Witness ==
  \E t \in DOMAIN turns : \E a, b \in DOMAIN uploadedImages :
    /\ uploadedImages[a].uploadError = ErrUpload
    /\ ~uploadedImages[a].isUploading
    /\ uploadedImages[b].uploadedPath = PathOf(uploadedImages[b].id)
    /\ turns[t].images = <<uploadedImages[a], uploadedImages[b]>>
    /\ turns[t].image_paths = <<PathOf(uploadedImages[b].id)>>

\* C25: the step of clearImages passes the preview URL of every asset on the
\* list to URL.revokeObjectURL, leaves none of them live, and leaves the asset
\* list and the selection empty; and in no state is the asset list empty
\* while the selection is not.
C25_ClearEmptiesBoth ==
  /\ [][clearImages =>
          /\ uploadedImages' = << >>
          /\ selectedImages' = << >>
          /\ \A i \in DOMAIN uploadedImages :
               /\ uploadedImages[i].url \notin objectURLs'
               /\ Occurrences(uploadedImages[i].url, revokes')
                    = Occurrences(uploadedImages[i].url, revokes) + 1]_vars
  /\ [](uploadedImages = << >> => selectedImages = << >>)

\* The list was cleared while the upload of its asset was in flight: list and
\* selection are empty, the preview is released, the request is pending.
C25_Witness ==
  /\ uploadedImages = << >>
  /\ selectedImages = << >>
  /\ uploads # << >>
  /\ objectURLs = {}
  /\ revokes # << >>

\* C30: an asset that is off the asset list stays off it: every asset on the
\* list after a step was on it before the step or was created by the step
\* (so an asset that was removed or cleared is on the list in no later state,
\* whatever its upload request does).
C30_RemovedStaysAbsent ==
  [][\A i \in DOMAIN uploadedImages' :
       \/ uploadedImages'[i].id >= nextId
       \/ \E j \in DOMAIN uploadedImages : uploadedImages[j].id = uploadedImages'[i].id]_vars

\* The ids of the sessions of a list.
IdsOf(sessions) == {sessions[i].id : i \in DOMAIN sessions}

\* C27: when the delete of session s succeeds, s is off the session list and
\* is not the selected session afterwards: the selection becomes '' when s
\* was selected and stays what it was otherwise.
C27_DeletedSessionNotSelected ==
  [][\A r \in DOMAIN sessionCalls :
       DeleteSettled(r, TRUE) =>
         LET s == sessionCalls[r].sessionId
         IN  /\ s \notin IdsOf(sessionManager'.sessions)
             /\ currentSessionId' # s]_vars

\* C26: handleCreateSession with a name that is empty or white space, or
\* with no model selected, sets an error message ('Session name is required',
\* else 'Please select a model first'), issues no request and leaves the
\* session list, the selection and the modal as they are.
C26_InvalidCreateRefused ==
  [][(/\ handleCreateSession
      /\ (Trim(sessionManager.newSessionName) = << >> \/ currentModelId = Null))
       => /\ sessionManager' =
               [sessionManager EXCEPT
                  !.error = IF Trim(sessionManager.newSessionName) = << >>
                              THEN ErrNameRequired ELSE ErrModelFirst]
          /\ sessionCalls' = sessionCalls
          /\ currentSessionId' = currentSessionId]_vars

\* The form was submitted with a name after the probe had found the backend
\* without its model: the error is set, no request is in flight and no
\* session was created.
C26_Witness ==
  /\ sessionManager.showCreateModal
  /\ sessionManager.error = ErrModelFirst
  /\ sessionManager.newSessionName = <<"work">>
  /\ currentModelId = Null
  /\ sessionCalls = << >>
  /\ quota.creates = 1

\* The form was submitted with a name of white space.
C26_BlankName ==
  /\ sessionManager.showCreateModal
  /\ sessionManager.error = ErrNameRequired
  /\ sessionManager.newSessionName = <<" ">>
  /\ sessionCalls = << >>

\* The session request r settles in this step and no request is issued.
SettlesOnly(r, calls) == calls = Without(sessionCalls, r)

\* C28: a list, create or delete request that fails sets its error and
\* leaves the session list and the selection as they are; a create that
\* succeeds puts the returned session in front of the list, a delete that
\* succeeds takes the deleted session, and only it, off the list; and none of
\* these steps issues a request (the list is not loaded again).
C28_FailureKeepsListAndSelection ==
  [][\A r \in DOMAIN sessionCalls :
       /\ ListSettled(r, FALSE, << >>)
            => /\ sessionManager'.sessions = sessionManager.sessions
               /\ sessionManager'.error = ErrLoadSessions
               /\ currentSessionId' = currentSessionId
               /\ SettlesOnly(r, sessionCalls')
       /\ DeleteSettled(r, FALSE)
            => /\ sessionManager'.sessions = sessionManager.sessions
               /\ sessionManager'.error = ErrDeleteSession
               /\ currentSessionId' = currentSessionId
               /\ SettlesOnly(r, sessionCalls')
       /\ DeleteSettled(r, TRUE)
            => /\ sessionManager'.sessions =
                    SelectSeq(sessionManager.sessions,
                              LAMBDA x : x.id # sessionCalls[r].sessionId)
               /\ SettlesOnly(r, sessionCalls')
       /\ \A id \in SessionIds :
            /\ CreateSettled(r, FALSE, id)
                 => /\ sessionManager'.sessions = sessionManager.sessions
                    /\ sessionManager'.error = ErrCreateSession
                    /\ currentSessionId' = currentSessionId
                    /\ SettlesOnly(r, sessionCalls')
            /\ CreateSettled(r, TRUE, id)
                 => /\ Len(sessionManager'.sessions) = Len(sessionManager.sessions) + 1
                    /\ Head(sessionManager'.sessions).id = id
                    /\ Head(sessionManager'.sessions).name = sessionCalls[r].name
                    /\ Tail(sessionManager'.sessions) = sessionManager.sessions
                    /\ SettlesOnly(r, sessionCalls')]_vars

\* A delete has failed: the error is set, the session that was created
\* before and the older one are on the list, and the older one is selected.
C28_Witness ==
  /\ sessionManager.error = ErrDeleteSession
  /\ ~sessionManager.isLoading
  /\ sessionCalls = << >>
  /\ Len(sessionManager.sessions) = 2
  /\ currentSessionId = sessionManager.sessions[2].id

\* Some request of the running probe throws in this step.
AnyProbeRequestThrows == ProbeHealth("throw") \/ ProbeInfo(FALSE) \/ ProbeModels(FALSE)

\* C29, as stated: a probe any of whose requests throws sets isConnected to
\* false and sets a non-empty error message.
C29_AnyThrowDisconnects ==
  [][AnyProbeRequestThrows => (~isConnected' /\ error' # Null)]_vars

\* The checkHealth or the getModelInfo request of the running probe throws in
\* this step.
ProbeThrows == ProbeHealth("throw") \/ ProbeInfo(FALSE)

\* C29, amended: a probe whose checkHealth or getModelInfo request throws ends
\* with isConnected false and the error 'Failed to connect to backend...',
\* and is over (nothing but the catch runs); a throw of getAvailableModels
\* ends the probe with isConnected and the model as they are and the error
\* cleared; the next probe can start whenever none is running; a probe whose
\* health request answers sets isConnected to (status = 'healthy'), the rest
\* of the probe leaves isConnected alone unless a request throws, and the end
\* of a probe whose first two requests answered clears the error.
C29_ProbeFailureAndRecovery ==
  /\ [][ProbeThrows =>
          /\ ~isConnected'
          /\ error' = ErrConnect /\ ErrConnect # Null
          /\ probe' = "idle"
          /\ UNCHANGED <<messages, isGenerating, currentModelId, currentSessionId>>]_vars
  /\ [][ProbeModels(FALSE) =>
          /\ probe' = "idle"
          /\ error' = Null
          /\ UNCHANGED <<isConnected, currentModelId, messages, isGenerating>>]_vars
  /\ []((probe = "idle" /\ quota.probes > 0) => ENABLED ProbeStart)
  /\ [][\A status \in {"healthy", "unhealthy"} :
          ProbeHealth(status) => (isConnected' = (status = "healthy") /\ error' = error)]_vars
  /\ [][(probe \in {"info", "models"} /\ ~ProbeThrows) => isConnected' = isConnected]_vars
  /\ [][(probe = "models" /\ probe' = "idle") => error' = Null]_vars

\* An earlier probe has failed (its error is still shown) and the health
\* request of the last probe was answered with 'healthy': the client is
\* connected and the probe is at its last request.
C29_Witness ==
  /\ probe = "models"
  /\ isConnected
  /\ error = ErrConnect
  /\ quota.probes = 0

\* ---------------------------------------------------------------- the flags
\* The three states of the controller.
AwaitingConfirmation == isGenerating /\ isWaitingForLogConfirmation

\* C31: the two lock flags never take an impossible combination.  In every
\* reachable state isWaitingForLogConfirmation implies isGenerating, so the
\* controller is in exactly one of Idle (both false), Streaming (generating
\* only) and AwaitingConfirmation (both true).
C31_WaitingImpliesGenerating ==
  /\ isWaitingForLogConfirmation => isGenerating
  /\ Cardinality({ b \in {"idle", "streaming", "awaiting"} :
                     \/ b = "idle" /\ Idle
                     \/ b = "streaming" /\ isGenerating /\ ~isWaitingForLogConfirmation
                     \/ b = "awaiting" /\ AwaitingConfirmation }) = 1

\* The second turn of a page is awaiting its confirmation, after a first turn
\* that failed.
C31_Witness ==
  /\ Len(turns) = 2
  /\ turns[1].exit = "throw"
  /\ turns[2].exit = "done"
  /\ AwaitingConfirmation

\* The messages of the log that are shown as streaming.
StreamingMessages == {i \in DOMAIN messages : messages[i].isStreaming}

\* C32: in every reachable state at most one message of the log has
\* isStreaming true, and while isGenerating is false no message has it.
C32_AtMostOneStreaming ==
  /\ Cardinality(StreamingMessages) <= 1
  /\ ~isGenerating => StreamingMessages = {}

\* The log holds the placeholders of two turns: the first is finalized, the
\* second is streaming.
C32_Witness ==
  /\ Len(turns) = 2
  /\ Placeholders(1) # {} /\ Placeholders(2) # {}
  /\ \A i \in Placeholders(1) : ~messages[i].isStreaming
  /\ \A i \in Placeholders(2) : messages[i].isStreaming
  /\ isGenerating

\* A turn has ended and the page is idle with the finalized placeholder in
\* the log.
C32_IdleAfterTurn ==
  /\ Len(turns) = 1
  /\ Placeholders(1) # {}
  /\ ~isGenerating

\* The call of turn t has not returned and its placeholder is not in the log:
\* the log was cleared during the turn.
ClearedDuring(t) == turns[t].st # "returned" /\ Placeholders(t) = {}

\* C33: when the log is cleared while a turn streams, what the reader then
\* delivers for the turn adds no message (no token recreates the
\* placeholder), and the done event of the turn still leaves the controller
\* idle, with both flags false.
C33_ClearedTurnStillUnlocks ==
  [][\A t \in DOMAIN turns :
       (ClearedDuring(t) /\ turns'[t] # turns[t]) =>
         /\ messages' = messages
         /\ turns'[t].exit = "done" =>
              ~isGenerating' /\ ~isWaitingForLogConfirmation']_vars

\* The turn's tokens and its done event were read, the log is empty, no log
\* request was issued (the placeholder was gone at the done event) and the
\* controller is idle.
C33_Witness ==
  /\ Len(turns) = 1
  /\ turns[1].exit = "done"
  /\ TokensOf(1) # << >>
  /\ messages = << >>
  /\ logRequests = << >>
  /\ Idle

\* C34: the selection is cleared when the streaming call of a turn returns,
\* not when the send is accepted.  The step that accepts a send and the steps
\* of the stream before its end leave the selection as it is; the step in
\* which the call returns leaves it empty, whatever the user selected while
\* the turn was streaming.
C34_SelectionClearedOnReturn ==
  [][/\ Len(turns') > Len(turns) => selectedImages' = selectedImages
     /\ \A t \in DOMAIN turns :
          /\ (turns[t].st # "returned" /\ turns'[t].st = "returned") =>
               selectedImages' = << >>
          /\ (turns'[t] # turns[t] /\ turns'[t].st # "returned") =>
               selectedImages' = selectedImages]_vars

\* A send with an image was accepted, its stream is being read, and the
\* image is still selected.
C34_Witness ==
  /\ Len(turns) = 1
  /\ turns[1].st = "reading"
  /\ turns[1].images # << >>
  /\ selectedImages = turns[1].images

\* An image picked after the send is selected while the done event of the
\* turn is on its way.
C34_SelectedWhileStreaming ==
  /\ Len(turns) = 1
  /\ turns[1].st = "reading"
  /\ turns[1].inflight = DoneLine \o <<NL>>
  /\ \E i \in DOMAIN selectedImages : selectedImages[i].id > turns[1].assistantMessageId

\* The ids of a sequence of image records.
ImageIds(images) == {images[i].id : i \in DOMAIN images}

\* C35: in every reachable state each selected asset is in the asset list:
\* the ids of the selection are among the ids of the list.
C35_SelectionWithinList == ImageIds(selectedImages) \subseteq ImageIds(uploadedImages)

\* After a pick of two files, a settled upload, a removal and a send, the
\* asset that is left is selected.
C35_Witness ==
  /\ selectedImages # << >>
  /\ uploads = << >>
  /\ revokes # << >>
  /\ Len(turns) = 1 /\ turns[1].st = "returned"

\* The assets of the list whose upload request has settled.
SettledAssets ==
  {i \in DOMAIN uploadedImages :
     \A u \in DOMAIN uploads : uploadedImages[i].id \notin ImageIds(uploads[u])}

\* C36: once the upload of a batch has settled, every asset of the batch
\* that is still in the list has isUploading false and exactly one of an
\* uploaded path and an upload error, also when the response of the backend
\* lists fewer files than were sent.
C36_SettledHasPathOrError ==
  \A i \in SettledAssets :
    /\ ~uploadedImages[i].isUploading
    /\ (uploadedImages[i].uploadedPath # NoPath) # (uploadedImages[i].uploadError # Null)

\* -------------------------------------------------------------- the reader
\* What the reader calls when it gets the bytes in one read.
CallsInOneRead(t) == ProcessChunk(<< >>, turns[t].wire, ChatState, turns[t]).calls

HasTerminal(lines) == \E k \in DOMAIN lines : IsTerminal(lines[k])

\* C37: the callbacks the reader has made (onStart, onToken with its
\* fragment, onDone, onError) depend on the bytes it has received and not on
\* the reads they came in: they are the callbacks of the same bytes received
\* in one read, so a line split over two reads is delivered once and whole;
\* and a terminal event among the lines received is delivered, the call never
\* ends by the end of the stream with a terminal line unhandled.
C37_CallbacksOfBytesNotOfReads ==
  \A t \in DOMAIN turns :
    /\ turns[t].calls = CallsInOneRead(t)
    /\ HasTerminal(LinesSeen(t)) =>
         /\ turns[t].exit \in {"done", "error"}
         /\ turns[t].calls # << >>
         /\ turns[t].calls[Len(turns[t].calls)].fn \in {"onDone", "onError"}
    /\ turns[t].exit = "eof" => ~HasTerminal(LinesSeen(t))

\* A token was delivered, and the done line of the stream is split over two
\* reads: its prefix is in the buffer, its payload and its newline are the
\* last bytes on their way.
C37_Witness ==
  /\ Len(turns) = 1
  /\ turns[1].st = "reading"
  /\ turns[1].calls = <<Call("onToken", <<"A ">>)>>
  /\ turns[1].buffer = <<Prefix>>
  /\ turns[1].inflight = <<Json("done", << >>), NL>>

\* The split done line was delivered by the last read before the end of the
\* stream.
C37_SplitLineDelivered ==
  /\ Len(turns) = 1
  /\ turns[1].exit = "done"
  /\ turns[1].calls = <<Call("onStart", << >>), Call("onToken", <<"cat.">>),
                        Call("onDone", << >>)>>

\* ------------------------------------------------------------ transcription
\* C38: a transcription always releases its lock.  isAudioLoading follows
\* isTranscribing (onLoadingChange(true) at the start, onLoadingChange(false)
\* once, in the step that resets isTranscribing); a transcription that has
\* started ends, whether the request succeeds, answers with a failure or with
\* an empty text, or is rejected; and the text area takes a transcription
\* only in the step of a success with a text.
C38_TranscriptionReleasesLock ==
  /\ [](isAudioLoading = isTranscribing)
  /\ [][(isTranscribing /\ ~isTranscribing') =>
          /\ ~isAudioLoading'
          /\ message' # message =>
               \E response \in Transcriptions :
                 /\ response.status = "success"
                 /\ response.transcription_text # << >>
                 /\ message' = Transcribed(message, response.transcription_text)]_vars
  /\ [][(\E response \in Transcriptions :
           /\ ~(response.status = "success" /\ response.transcription_text # << >>)
           /\ TranscriptionResolved(response)) => message' = message]_vars
  /\ [][TranscriptionRejected => message' = message]_vars
  /\ isTranscribing ~> ~isTranscribing

\* Two transcriptions have ended, one of them without a text: the text area
\* holds one transcription and nothing is locked.
C38_Witness ==
  /\ quota.audio = 0
  /\ ~isTranscribing /\ ~isAudioLoading
  /\ message = <<"hello">>

\* -------------------------------------------------- the page without streaming
\* The generate calls that have not settled.
Generating == {t \in DOMAIN turns : turns[t].st = "generate"}

\* C39: in the flow without streaming every accepted send appends one user
\* message, and the settling of its request appends one assistant message:
\* the response text on success, a text that starts with "Error: " on
\* failure; isGenerating is true in between and false after both.  A send
\* while isGenerating is true or while disconnected appends nothing and
\* starts no request, and nothing else adds a message.
C39_OneUserThenOneAssistant ==
  /\ [](Cardinality(Generating) = IF isGenerating THEN 1 ELSE 0)
  /\ [][Len(turns') > Len(turns) =>
          /\ ~isGenerating /\ isConnected
          /\ Len(messages') = Len(messages) + 1
          /\ SubSeq(messages', 1, Len(messages)) = messages
          /\ messages'[Len(messages')].type = "user"
          /\ messages'[Len(messages')].content = message
          /\ isGenerating']_vars
  /\ [][\A t \in Generating :
          turns'[t].st = "returned" =>
            /\ Len(messages') = Len(messages) + 1
            /\ SubSeq(messages', 1, Len(messages)) = messages
            /\ messages'[Len(messages')].type = "assistant"
            /\ IF turns'[t].exit = "ok"
                 THEN messages'[Len(messages')].content \in GenerateResponses
                 ELSE Head(messages'[Len(messages')].content) = "Error: "
            /\ ~isGenerating']_vars
  /\ [][(SimpleHandleSendMessage /\ (isGenerating \/ ~isConnected)) =>
          messages' = messages /\ turns' = turns]_vars
  /\ [][messages' # messages =>
          \/ Len(turns') > Len(turns)
          \/ \E t \in Generating : turns'[t].st = "returned"
          \/ messages' = << >>]_vars

\* Two sends have been answered, the first with a response and the second
\* with a failure: the log is user, assistant, user, assistant.
C39_Witness ==
  /\ Len(turns) = 2
  /\ turns[1].exit = "ok" /\ turns[2].exit = "throw"
  /\ Len(messages) = 4
  /\ \A i \in 1..4 : messages[i].type = IF i % 2 = 1 THEN "user" ELSE "assistant"
  /\ messages[2].content = <<"A cat.">>
  /\ Head(messages[4].content) = "Error: "
  /\ ~isGenerating

\* A send was refused while a request was in flight, and one after the
\* connection was lost.
C39_RefusedWhileGenerating == isGenerating /\ declined = "send" /\ Len(messages) = 1

C39_RefusedWhileDisconnected ==
  /\ ~isConnected /\ ~isGenerating /\ declined = "send"
  /\ Trim(message) # << >>

====
